---- MODULE Spec2Model ----
(***************************************************************************)
(* Staff AI Manager (OpenRCT2 plugin, v3.0.0): the analysis-and-decision   *)
(* engine as a state machine.  The objects of the plugin (ActionQueue,     *)
(* ParkAnalyzer, RideTracker, CrimeDetector, GuestFeedbackAnalyzer,        *)
(* StaffManager, CONFIG) are variables holding records of their fields;    *)
(* the host (network, map, date, the effect gateway) is the environment.   *)
(* Every handler (interval.tick, map.change, the window's buttons) is one  *)
(* action that runs the whole handler: the methods are operators from a    *)
(* state record to a state record, composed in the order of the code.      *)
(*                                                                         *)
(* Coordinates handed to setStaffPatrolArea are kept in half-tile units    *)
(* (twice the value) so that mapWidth / 2 is exact and Math.floor is       *)
(* modelled by what it does.                                               *)
(***************************************************************************)
EXTENDS Integers, Sequences, FiniteSets, TLC

VARIABLES network, map, date, CONFIG, ActionQueue, ParkAnalyzer, RideTracker,
          CrimeDetector, GuestFeedbackAnalyzer, StaffManager, gateway, history,
          trace

vars == <<network, map, date, CONFIG, ActionQueue, ParkAnalyzer, RideTracker,
          CrimeDetector, GuestFeedbackAnalyzer, StaffManager, gateway, history,
          trace>>

(***************************************************************************)
(* Bounds of the model.  The intervals, the cell budget, the zone size and *)
(* the zone overlap are the plugin's configuration scaled down so that     *)
(* every sub-system fires within MaxTick ticks on worlds of a few cells.   *)
(***************************************************************************)
MaxTick == 4
MaxDim == 3
MaxStaff == 4
MaxHostEvents == 1
cellBudget == 3
eventCheckInterval == 1
analysisInterval == 2
staffUpdateInterval == 2
autoHireCheckInterval == 2
autoReanalyzeInterval == 4
autoGenZonesInterval == 2
patrolZoneSize == 2
patrolZoneOverlap == 1

(***************************************************************************)
(* Program constants.                                                      *)
(***************************************************************************)
maxPerTick == 3
TileUnits == 32
SWEEPING == 1
WATERING == 2
EMPTY_BINS == 4
MOWING == 8
INSPECT == 1
FIX == 2

Min(a, b) == IF a <= b THEN a ELSE b
Max(a, b) == IF a >= b THEN a ELSE b
\* Math.ceil(a / b) for a >= 0, b > 0
CeilDiv(a, b) == (a + b - 1) \div b
\* Math.floor of a value held in half units
Floor2(v) == v \div 2

(***************************************************************************)
(* The host.                                                               *)
(***************************************************************************)
NetworkModes == {"none", "server", "client"}
StaffTypes == <<"handyman", "mechanic", "security", "entertainer">>

\* What the effect gateway answers for the effects of one drain, in order:
\* error code 0, a non-zero error code, or an exception.
GatewayScripts == {<<"ok", "ok", "ok", "ok">>, <<"throw", "ok", "err", "ok">>}

Scenes == {"quiet", "rowdy", "busy"}
RideIds == {0, 1, 2}

\* map.rides: the structure roster holds ride ids; a ride's data is fixed by
\* its id.  Ride 0 has a station with entrance, exit and start, its
\* entrance and exit coordinates lying on path tiles; ride 1 has no station
\* data; ride 2 is a stall; ride 3 has a station whose entrance coordinate
\* is the tile of an entrance element, at the head of the row-0 path.
Ride(id) ==
    [id |-> id,
     classification |-> IF id = 2 THEN "stall" ELSE "ride",
     stations |-> IF id = 0
                  THEN <<[entrance |-> <<[x |-> 1, y |-> 0]>>,
                          exit |-> <<[x |-> 0, y |-> 1]>>,
                          start |-> <<[x |-> 1, y |-> 1]>>]>>
                  ELSE IF id = 3
                  THEN <<[entrance |-> <<[x |-> 0, y |-> 0]>>,
                          exit |-> <<>>, start |-> <<>>]>>
                  ELSE <<>>]

\* map.getTile(x, y): the elements of a tile.  Cell (0,0) holds an entrance
\* element, row 0 and column 0 are footpaths (queue line at x = 1), cell
\* (1,1) is track of ride 0; paths are broken in the rowdy scene.  For a
\* cell of m.throwingTiles the query throws: each of its three callers
\* catches that around the cell's own work, which leaves the cell without
\* elements.
getTile(m, x, y) ==
    IF x < 0 \/ y < 0 \/ x >= m.size[1] \/ y >= m.size[2] THEN <<>>
    ELSE IF <<x, y>> \in m.throwingTiles THEN <<>>
    ELSE <<[type |-> "surface"]>> \o
         (IF x = 0 /\ y = 0 THEN <<[type |-> "entrance"]>>
          ELSE IF x = 0 \/ y = 0
               THEN <<[type |-> "footpath", isQueue |-> (x = 1),
                       isBroken |-> (m.scene = "rowdy")]>>
          ELSE IF x = 1 /\ y = 1 THEN <<[type |-> "track", ride |-> 0]>>
          ELSE <<>>)

\* map.getAllEntities('guest'): positions in world units (32 per tile);
\* a guest that is not on the map has the host's null location -32768.
Guests(scene) ==
    IF scene = "rowdy"
    THEN <<[x |-> 40, y |-> 45, happiness |-> 90, nausea |-> 200, thoughts |-> <<"bad_litter", "bad_litter", "bad_litter", "bad_litter", "bad_litter">>],
           [x |-> 50, y |-> 60, happiness |-> 120, nausea |-> 0, thoughts |-> <<"vandalism", "litter", "disgusting", "path_disgusting", "disgusting">>],
           [x |-> 63, y |-> 33, happiness |-> 60, nausea |-> 0, thoughts |-> <<"disgusting">>],
           [x |-> -32768, y |-> -32768, happiness |-> 255, nausea |-> 0, thoughts |-> <<>>]>>
    ELSE IF scene = "busy"
    THEN <<[x |-> 700, y |-> 540, happiness |-> 200, nausea |-> 0, thoughts |-> <<>>],
           [x |-> 710, y |-> 530, happiness |-> 220, nausea |-> 10, thoughts |-> <<"litter">>]>>
    ELSE IF scene = "gloomy"
    THEN <<[x |-> 0, y |-> 0, happiness |-> 82, nausea |-> 0, thoughts |-> <<>>],
           [x |-> 0, y |-> 0, happiness |-> 122, nausea |-> 0, thoughts |-> <<>>]>>
    ELSE IF scene = "borderline"
    THEN <<[x |-> 0, y |-> 0, happiness |-> 153, nausea |-> 0, thoughts |-> <<>>]>>
    ELSE IF scene = "content"
    THEN <<[x |-> 0, y |-> 0, happiness |-> 155, nausea |-> 0, thoughts |-> <<>>],
           [x |-> 0, y |-> 0, happiness |-> 156, nausea |-> 0, thoughts |-> <<>>]>>
    ELSE <<>>

\* map.getAllEntities('litter')
Litter(scene) ==
    IF scene = "rowdy"
    THEN <<[x |-> 32, y |-> 0], [x |-> 33, y |-> 1], [x |-> 0, y |-> 64],
           [x |-> 0, y |-> 65], [x |-> 1, y |-> 66]>>
    ELSE <<>>

\* the id the host gives the first staff member hired during the run
FirstEntity == 10

InitialRosters ==
    {<<>>,
     <<[id |-> 0, staffType |-> "handyman", orders |-> 0],
       [id |-> 1, staffType |-> "security", orders |-> 0],
       [id |-> 2, staffType |-> "entertainer", orders |-> 0]>>}
\* the parks the host can load: the world size and the structure roster
Worlds ==
    {[size |-> <<1, 1>>, rides |-> <<>>],
     [size |-> <<MaxDim - 1, MaxDim>>, rides |-> <<0>>],
     [size |-> <<MaxDim, MaxDim - 1>>, rides |-> <<2, 0>>]}

(***************************************************************************)
(* The state record the methods work on, and its write-back.               *)
(***************************************************************************)
State ==
    [network |-> network, map |-> map, date |-> date, CONFIG |-> CONFIG,
     ActionQueue |-> ActionQueue, ParkAnalyzer |-> ParkAnalyzer,
     RideTracker |-> RideTracker, CrimeDetector |-> CrimeDetector,
     GuestFeedbackAnalyzer |-> GuestFeedbackAnalyzer,
     StaffManager |-> StaffManager, gateway |-> gateway, history |-> history,
     trace |-> trace]

Becomes(s) ==
    /\ network' = s.network
    /\ map' = s.map
    /\ date' = s.date
    /\ CONFIG' = s.CONFIG
    /\ ActionQueue' = s.ActionQueue
    /\ ParkAnalyzer' = s.ParkAnalyzer
    /\ RideTracker' = s.RideTracker
    /\ CrimeDetector' = s.CrimeDetector
    /\ GuestFeedbackAnalyzer' = s.GuestFeedbackAnalyzer
    /\ StaffManager' = s.StaffManager
    /\ gateway' = s.gateway
    /\ history' = s.history
    /\ trace' = s.trace

\* The record of what one handler did (rewritten by every action).
NewTrace(op, s) ==
    [op |-> op, ran |-> {}, dispatched |-> <<>>, discarded |-> <<>>,
     added |-> <<>>, retracked |-> {}, trigger |-> "", sizeChanged |-> FALSE,
     regenerations |-> <<>>, threw |-> <<>>,
     analyzedAtStart |-> s.ParkAnalyzer.isAnalyzed]

Begin(op) == [State EXCEPT !.trace = NewTrace(op, State)]
Ran(s, name) == [s EXCEPT !.trace.ran = @ \cup {name}]
\* the hiring trigger at work: "event" in checkSmartHiring, "ratio" in
\* checkAutoHire, "" outside both
Trigger(s, name) == [s EXCEPT !.trace.trigger = name]

(***************************************************************************)
(* NetworkHelper                                                           *)
(***************************************************************************)
getMode(s) == s.network
isServer(s) == getMode(s) = "none" \/ getMode(s) = "server"
canModifyGameState(s) == isServer(s)

\* date.ticksElapsed || 0
getGameTick(s) == s.date

(***************************************************************************)
(* The effect gateway, context.executeAction(action, args, callback): it   *)
(* records the effect, applies it to the world and calls back with the     *)
(* result.  A hire fails when the park already holds map.staffLimit        *)
(* members.                                                                *)
(***************************************************************************)
StaffTypeName(n) == StaffTypes[n + 1]

\* the callbacks ignoring the result's error code
callbackIgnoringError(s, item, error) ==
    IF item.callback = "staffhire"
    THEN [s EXCEPT !.StaffManager.statistics.staffHired = @ + 1,
                   !.StaffManager.zonesNeedRegeneration = TRUE]
    ELSE IF item.callback = "staffsetpatrolarea"
    THEN [s EXCEPT !.StaffManager.statistics.patrolZonesSet = @ + 1]
    ELSE IF item.callback = "staffsetorders"
    THEN [s EXCEPT !.StaffManager.statistics.ordersChanged = @ + 1]
    ELSE s

\* the patrol-area callback putting a failed effect back in the queue
callbackRetrying(s, item, error) ==
    IF item.callback = "staffhire"
    THEN IF error = 0
         THEN [s EXCEPT !.StaffManager.statistics.staffHired = @ + 1,
                        !.StaffManager.zonesNeedRegeneration = TRUE]
         ELSE s
    ELSE IF item.callback = "staffsetpatrolarea"
    THEN IF error = 0
         THEN [s EXCEPT !.StaffManager.statistics.patrolZonesSet = @ + 1]
         ELSE [s EXCEPT !.StaffManager.statistics.patrolZonesFailed = @ + 1,
                        !.ActionQueue.queue = Append(@, item)]
    ELSE IF item.callback = "staffsetorders"
    THEN IF error = 0
         THEN [s EXCEPT !.StaffManager.statistics.ordersChanged = @ + 1]
         ELSE s
    ELSE s

callback(s, item, error) ==
    IF item.callback = "staffhire"
    THEN IF error = 0
         THEN [s EXCEPT !.StaffManager.statistics.staffHired = @ + 1,
                        !.StaffManager.zonesNeedRegeneration = TRUE]
         ELSE s
    ELSE IF item.callback = "staffsetpatrolarea"
    THEN IF error = 0
         THEN [s EXCEPT !.StaffManager.statistics.patrolZonesSet = @ + 1]
         ELSE [s EXCEPT !.StaffManager.statistics.patrolZonesFailed = @ + 1]
    ELSE IF item.callback = "staffsetorders"
    THEN IF error = 0
         THEN [s EXCEPT !.StaffManager.statistics.ordersChanged = @ + 1]
         ELSE s
    ELSE s

HasStaff(m, id) == \E i \in 1..Len(m.staff) : m.staff[i].id = id

executeAction(s, item, outcome) ==
    LET s1 == [s EXCEPT !.gateway.executed = Append(@, item.id),
                        !.trace.dispatched = Append(@, item)]
    IN  IF outcome = "throw" THEN [s1 EXCEPT !.trace.threw = Append(@, item)]
        ELSE IF item.action = "staffhire"
        THEN IF outcome = "ok" /\ Len(s1.map.staff) < s1.map.staffLimit
             THEN callback([s1 EXCEPT !.map.staff = Append(@,
                               [id |-> s1.map.nextEntity,
                                staffType |-> StaffTypeName(item.args.staffType),
                                orders |-> item.args.staffOrders]),
                             !.map.nextEntity = @ + 1], item, 0)
             ELSE callback(s1, item, 1)
        ELSE IF item.action = "staffsetorders"
        THEN IF outcome = "ok" /\ HasStaff(s1.map, item.args.id)
             THEN callback([s1 EXCEPT !.map.staff =
                               [i \in 1..Len(@) |->
                                  IF @[i].id = item.args.id
                                  THEN [@[i] EXCEPT !.orders = item.args.staffOrders]
                                  ELSE @[i]]], item, 0)
             ELSE callback(s1, item, 1)
        ELSE IF outcome = "ok" /\ HasStaff(s1.map, item.args.id)
             THEN callback(s1, item, 0)
             ELSE callback(s1, item, 1)

(***************************************************************************)
(* ActionQueue                                                             *)
(***************************************************************************)
add(s, actionName, args, cb) ==
    LET item == [id |-> s.gateway.issued + 1, action |-> actionName,
                 args |-> args, callback |-> cb]
    IN  [s EXCEPT !.ActionQueue.queue = Append(@, item),
                  !.gateway.issued = @ + 1,
                  !.gateway.origin = Append(@, [op |-> s.trace.op, date |-> s.date,
                                                size |-> s.map.size,
                                                trigger |-> s.trace.trigger,
                                                patrol |-> IF actionName = "staffsetpatrolarea"
                                                           THEN <<args.id, args.mode>>
                                                           ELSE <<>>]),
                  !.trace.added = Append(@, item)]

\* the loop with its bound off by one
RECURSIVE drainOffByOne(_, _, _)
drainOffByOne(s, processed, script) ==
    IF Len(s.ActionQueue.queue) > 0 /\ processed <= maxPerTick
    THEN LET item == Head(s.ActionQueue.queue)
             s1 == [s EXCEPT !.ActionQueue.queue = Tail(@)]
         IN  drainOffByOne(executeAction(s1, item, script[(processed % Len(script)) + 1]),
                           processed + 1, script)
    ELSE s

\* the loop reading the head of the queue without shifting it
RECURSIVE drainPeek(_, _, _)
drainPeek(s, processed, script) ==
    IF Len(s.ActionQueue.queue) > 0 /\ processed < maxPerTick
    THEN LET item == Head(s.ActionQueue.queue)
         IN  drainPeek(executeAction(s, item, script[(processed % Len(script)) + 1]),
                       processed + 1, script)
    ELSE s

\* the loop without the try around the dispatch: the exception ends it
RECURSIVE drainAbortingOnThrow(_, _, _)
drainAbortingOnThrow(s, processed, script) ==
    IF Len(s.ActionQueue.queue) > 0 /\ processed < maxPerTick
    THEN LET item == Head(s.ActionQueue.queue)
             s1 == [s EXCEPT !.ActionQueue.queue = Tail(@)]
             outcome == script[(processed % Len(script)) + 1]
         IN  IF outcome = "throw" THEN executeAction(s1, item, outcome)
             ELSE drainAbortingOnThrow(executeAction(s1, item, outcome),
                                       processed + 1, script)
    ELSE s

\* the loop taking the newest effect (pop) instead of the oldest (shift)
RECURSIVE drainNewestFirst(_, _, _)
drainNewestFirst(s, processed, script) ==
    IF Len(s.ActionQueue.queue) > 0 /\ processed < maxPerTick
    THEN LET item == s.ActionQueue.queue[Len(s.ActionQueue.queue)]
             s1 == [s EXCEPT !.ActionQueue.queue = SubSeq(@, 1, Len(@) - 1)]
         IN  drainNewestFirst(executeAction(s1, item, script[(processed % Len(script)) + 1]),
                              processed + 1, script)
    ELSE s

\* the loop stopping at the last effect of the queue
RECURSIVE drainLeavingLast(_, _, _)
drainLeavingLast(s, processed, script) ==
    IF Len(s.ActionQueue.queue) > 1 /\ processed < maxPerTick
    THEN LET item == Head(s.ActionQueue.queue)
             s1 == [s EXCEPT !.ActionQueue.queue = Tail(@)]
         IN  drainLeavingLast(executeAction(s1, item, script[(processed % Len(script)) + 1]),
                              processed + 1, script)
    ELSE s

RECURSIVE drain(_, _, _)
drain(s, processed, script) ==
    IF Len(s.ActionQueue.queue) > 0 /\ processed < maxPerTick
    THEN LET item == Head(s.ActionQueue.queue)
             s1 == [s EXCEPT !.ActionQueue.queue = Tail(@)]
         IN  drain(executeAction(s1, item, script[(processed % Len(script)) + 1]),
                   processed + 1, script)
    ELSE s

Ids(items) == [i \in 1..Len(items) |-> items[i].id]

\* process without the authority check
processUnchecked(s0, script) == drain(Ran(s0, "process"), 0, script)

\* process returning on an observer without clearing the queue
processKeeping(s0, script) ==
    LET s == Ran(s0, "process")
    IN  IF ~canModifyGameState(s) THEN s ELSE drain(s, 0, script)

process(s0, script) ==
    LET s == Ran(s0, "process")
    IN  IF ~canModifyGameState(s)
        THEN [s EXCEPT !.ActionQueue.queue = <<>>,
                       !.gateway.discarded = @ \o Ids(s.ActionQueue.queue),
                       !.trace.discarded = @ \o s.ActionQueue.queue]
        ELSE drain(s, 0, script)

(***************************************************************************)
(* ParkAnalyzer                                                            *)
(***************************************************************************)
\* startAnalysis without the reset of pathTiles
startAnalysisKeepingPaths(s0) ==
    LET s == Ran(s0, "startAnalysis")
    IN  [s EXCEPT !.ParkAnalyzer.guestDensity = <<>>,
                  !.ParkAnalyzer.rideLocations = <<>>,
                  !.ParkAnalyzer.entranceLocations = <<>>,
                  !.ParkAnalyzer.queueLocations = <<>>,
                  !.ParkAnalyzer.totalPathTiles = 0,
                  !.ParkAnalyzer.totalLitter = 0,
                  !.ParkAnalyzer.totalVandalism = 0,
                  !.ParkAnalyzer.isAnalyzed = FALSE,
                  !.ParkAnalyzer.analysisProgress = 0,
                  !.ParkAnalyzer.analysisTotal = s.map.size[1] * s.map.size[2],
                  !.history.visited = <<>>,
                  !.history.steps = 0,
                  !.history.completions = 0]

startAnalysis(s0) ==
    LET s == Ran(s0, "startAnalysis")
    IN  [s EXCEPT !.ParkAnalyzer.guestDensity = <<>>,
                  !.ParkAnalyzer.pathTiles = <<>>,
                  !.ParkAnalyzer.rideLocations = <<>>,
                  !.ParkAnalyzer.entranceLocations = <<>>,
                  !.ParkAnalyzer.queueLocations = <<>>,
                  !.ParkAnalyzer.totalPathTiles = 0,
                  !.ParkAnalyzer.totalLitter = 0,
                  !.ParkAnalyzer.totalVandalism = 0,
                  !.ParkAnalyzer.isAnalyzed = FALSE,
                  !.ParkAnalyzer.analysisProgress = 0,
                  !.ParkAnalyzer.analysisTotal = s.map.size[1] * s.map.size[2],
                  !.history.visited = <<>>,
                  !.history.steps = 0,
                  !.history.completions = 0]

RECURSIVE classify(_, _, _, _, _)
classify(pa, elements, i, tileX, tileY) ==
    IF i > Len(elements) THEN pa
    ELSE LET element == elements[i]
             here == [x |-> tileX, y |-> tileY]
             pa1 == IF element.type = "footpath"
                    THEN [pa EXCEPT !.pathTiles = Append(@, here),
                                    !.totalPathTiles = @ + 1,
                                    !.queueLocations =
                                        IF element.isQueue THEN Append(@, here) ELSE @]
                    ELSE IF element.type = "track"
                    THEN [pa EXCEPT !.rideLocations =
                              Append(@, [x |-> tileX, y |-> tileY, rideId |-> element.ride])]
                    ELSE IF element.type = "entrance"
                    THEN [pa EXCEPT !.entranceLocations = Append(@, here)]
                    ELSE pa
         IN  classify(pa1, elements, i + 1, tileX, tileY)

\* the scan taking the row length from the map's height
RECURSIVE scanCellsByHeight(_, _)
scanCellsByHeight(s, processed) ==
    IF s.ParkAnalyzer.analysisProgress < s.ParkAnalyzer.analysisTotal
       /\ processed < cellBudget
    THEN LET mapHeight == s.map.size[2]
             tileX == s.ParkAnalyzer.analysisProgress % mapHeight
             tileY == s.ParkAnalyzer.analysisProgress \div mapHeight
             pa == classify(s.ParkAnalyzer, getTile(s.map, tileX, tileY), 1, tileX, tileY)
         IN  scanCellsByHeight([s EXCEPT !.ParkAnalyzer =
                                            [pa EXCEPT !.analysisProgress = @ + 1],
                                         !.history.visited = Append(@, <<tileX, tileY>>)],
                               processed + 1)
    ELSE s

\* the scan with the tile query's exception escaping the loop
RECURSIVE scanCellsAbortingOnFailure(_, _)
scanCellsAbortingOnFailure(s, processed) ==
    IF s.ParkAnalyzer.analysisProgress < s.ParkAnalyzer.analysisTotal
       /\ processed < cellBudget
    THEN LET mapWidth == s.map.size[1]
             tileX == s.ParkAnalyzer.analysisProgress % mapWidth
             tileY == s.ParkAnalyzer.analysisProgress \div mapWidth
             pa == classify(s.ParkAnalyzer, getTile(s.map, tileX, tileY), 1, tileX, tileY)
         IN  IF <<tileX, tileY>> \in s.map.throwingTiles THEN s
             ELSE scanCellsAbortingOnFailure(
                      [s EXCEPT !.ParkAnalyzer =
                                   [pa EXCEPT !.analysisProgress = @ + 1],
                                !.history.visited = Append(@, <<tileX, tileY>>)],
                      processed + 1)
    ELSE s

\* the scan going one cell over its budget
RECURSIVE scanCellsOverBudget(_, _)
scanCellsOverBudget(s, processed) ==
    IF s.ParkAnalyzer.analysisProgress < s.ParkAnalyzer.analysisTotal
       /\ processed <= cellBudget
    THEN LET mapWidth == s.map.size[1]
             tileX == s.ParkAnalyzer.analysisProgress % mapWidth
             tileY == s.ParkAnalyzer.analysisProgress \div mapWidth
             pa == classify(s.ParkAnalyzer, getTile(s.map, tileX, tileY), 1, tileX, tileY)
         IN  scanCellsOverBudget([s EXCEPT !.ParkAnalyzer =
                                              [pa EXCEPT !.analysisProgress = @ + 1],
                                           !.history.visited = Append(@, <<tileX, tileY>>)],
                                 processed + 1)
    ELSE s

RECURSIVE scanCells(_, _)
scanCells(s, processed) ==
    IF s.ParkAnalyzer.analysisProgress < s.ParkAnalyzer.analysisTotal
       /\ processed < cellBudget
    THEN LET mapWidth == s.map.size[1]
             tileX == s.ParkAnalyzer.analysisProgress % mapWidth
             tileY == s.ParkAnalyzer.analysisProgress \div mapWidth
             pa == classify(s.ParkAnalyzer, getTile(s.map, tileX, tileY), 1, tileX, tileY)
         IN  scanCells([s EXCEPT !.ParkAnalyzer =
                                    [pa EXCEPT !.analysisProgress = @ + 1],
                                 !.history.visited = Append(@, <<tileX, tileY>>)],
                       processed + 1)
    ELSE s

RideCount(m) == Cardinality({i \in 1..Len(m.rides) : Ride(m.rides[i]).classification = "ride"})

updateRideStats(s) == [s EXCEPT !.ParkAnalyzer.totalRides = RideCount(s.map)]

runAnalysisStep(s0) ==
    LET s == Ran(s0, "runAnalysisStep")
    IN  IF s.ParkAnalyzer.isAnalyzed THEN s
        ELSE LET s1 == scanCells([s EXCEPT !.history.steps = @ + 1], 0)
             IN  IF s1.ParkAnalyzer.analysisProgress >= s1.ParkAnalyzer.analysisTotal
                 THEN updateRideStats([s1 EXCEPT !.ParkAnalyzer.isAnalyzed = TRUE,
                                                 !.history.completions = @ + 1])
                 ELSE s1

\* what runAnalysisStep returns
runAnalysisStepResult(s0) ==
    IF s0.ParkAnalyzer.isAnalyzed THEN TRUE
    ELSE LET s1 == scanCells(s0, 0)
         IN  s1.ParkAnalyzer.analysisProgress >= s1.ParkAnalyzer.analysisTotal

(***************************************************************************)
(* SpatialHash: cells is the list of buckets in insertion order, each with *)
(* its key <<floor(x/cellSize), floor(y/cellSize)>> and its items.         *)
(***************************************************************************)
getKey(cellSize, x, y) == <<x \div cellSize, y \div cellSize>>

HashAdd(cells, cellSize, x, y, value) ==
    LET key == getKey(cellSize, x, y)
        item == [x |-> x, y |-> y, value |-> value]
    IN  IF \E i \in 1..Len(cells) : cells[i].key = key
        THEN [i \in 1..Len(cells) |->
                IF cells[i].key = key
                THEN [cells[i] EXCEPT !.items = Append(@, item)]
                ELSE cells[i]]
        ELSE Append(cells, [key |-> key, items |-> <<item>>])

\* Array.prototype.sort as a stable insertion sort, ascending in rank(e):
\* the comparators of the code are differences of one numeric field.
RECURSIVE InsertSorted(_, _, _)
InsertSorted(sorted, e, rank) ==
    IF sorted = <<>> THEN <<e>>
    ELSE IF rank[e] < rank[Head(sorted)] THEN <<e>> \o sorted
    ELSE <<Head(sorted)>> \o InsertSorted(Tail(sorted), e, rank)

RECURSIVE SortBy(_, _)
SortBy(seq, rank) ==
    IF seq = <<>> THEN <<>>
    ELSE InsertSorted(SortBy(SubSeq(seq, 1, Len(seq) - 1), rank), seq[Len(seq)], rank)

Slice(seq, n) == SubSeq(seq, 1, Min(n, Len(seq)))

(***************************************************************************)
(* RideTracker                                                             *)
(***************************************************************************)
maxDepth == 10
directions == <<<<0, 1>>, <<0, -1>>, <<1, 0>>, <<-1, 0>>>>

HasFootpath(elements) == \E i \in 1..Len(elements) : elements[i].type = "footpath"

\* The frontier is a list of <<x, y, depth>>.
RECURSIVE findConnectedPaths(_, _, _, _)
findConnectedPaths(s, frontier, visited, rideId) ==
    IF frontier = <<>> THEN s
    ELSE LET current == Head(frontier)
             rest == Tail(frontier)
             key == <<current[1], current[2]>>
         IN  IF key \in visited \/ current[3] > maxDepth
             THEN findConnectedPaths(s, rest, visited, rideId)
             ELSE IF HasFootpath(getTile(s.map, current[1], current[2]))
             THEN findConnectedPaths(
                      [s EXCEPT !.RideTracker.ridePaths[rideId] =
                           Append(@, [x |-> current[1], y |-> current[2], type |-> "path"])],
                      rest \o [d \in 1..Len(directions) |->
                                 <<current[1] + directions[d][1],
                                   current[2] + directions[d][2], current[3] + 1>>],
                      visited \cup {key}, rideId)
             ELSE findConnectedPaths(s, rest, visited \cup {key}, rideId)

RECURSIVE scanStations(_, _, _)
scanStations(s, ride, i) ==
    IF i > Len(ride.stations) THEN s
    ELSE LET station == ride.stations[i]
             s1 == IF station.entrance # <<>>
                   THEN findConnectedPaths(
                            [s EXCEPT !.RideTracker.rideEntrances[ride.id] =
                                          Append(@, station.entrance[1])],
                            <<<<station.entrance[1].x, station.entrance[1].y, 0>>>>, {}, ride.id)
                   ELSE s
             s2 == IF station.exit # <<>>
                   THEN findConnectedPaths(
                            [s1 EXCEPT !.RideTracker.rideExits[ride.id] =
                                           Append(@, station.exit[1])],
                            <<<<station.exit[1].x, station.exit[1].y, 0>>>>, {}, ride.id)
                   ELSE s1
             s3 == IF station.start # <<>>
                   THEN [s2 EXCEPT !.RideTracker.ridePaths[ride.id] =
                             Append(@, [x |-> station.start[1].x, y |-> station.start[1].y,
                                        type |-> "station"])]
                   ELSE s2
         IN  scanStations(s3, ride, i + 1)

findRideEntrancesExits(s, ride) ==
    scanStations([s EXCEPT !.RideTracker.rideEntrances = (ride.id :> <<>>) @@ @,
                           !.RideTracker.rideExits = (ride.id :> <<>>) @@ @,
                           !.RideTracker.ridePaths = (ride.id :> <<>>) @@ @,
                           !.history.searches = Append(@, ride.id)],
                 ride, 1)

Known(s, id) == id \in DOMAIN s.RideTracker.knownRides

\* trackRide without the check for a known id
trackRideAlways(s, ride) ==
    LET s1 == [s EXCEPT !.RideTracker.knownRides =
                   (ride.id :> [id |-> ride.id, trackedAt |-> getGameTick(s)]) @@ @]
        s2 == findRideEntrancesExits(s1, ride)
    IN  [s2 EXCEPT !.RideTracker.newRidesDetected = Append(@, ride.id)]

trackRide(s, ride) ==
    IF Known(s, ride.id) THEN [s EXCEPT !.trace.retracked = @ \cup {ride.id}]
    ELSE LET s1 == [s EXCEPT !.RideTracker.knownRides =
                        (ride.id :> [id |-> ride.id, trackedAt |-> getGameTick(s)]) @@ @]
             s2 == findRideEntrancesExits(s1, ride)
         IN  [s2 EXCEPT !.RideTracker.newRidesDetected = Append(@, ride.id)]

RECURSIVE scanRides(_, _, _)
scanRides(s, i, onlyUnknown) ==
    IF i > Len(s.map.rides) THEN s
    ELSE LET ride == Ride(s.map.rides[i])
         IN  IF ride.classification = "ride" /\ (~onlyUnknown \/ ~Known(s, ride.id))
             THEN scanRides(trackRide(s, ride), i + 1, onlyUnknown)
             ELSE scanRides(s, i + 1, onlyUnknown)

scanAllRides(s) ==
    [scanRides(Ran(s, "scanAllRides"), 1, FALSE)
        EXCEPT !.RideTracker.lastRideCount = Len(s.map.rides)]

\* checkForNewRides: the state it leaves, and the value it returns.
checkForNewRides(s) ==
    IF Len(s.map.rides) # s.RideTracker.lastRideCount
    THEN [scanRides(Ran(s, "checkForNewRides"), 1, TRUE)
             EXCEPT !.RideTracker.lastRideCount = Len(s.map.rides)]
    ELSE Ran(s, "checkForNewRides")

checkForNewRidesResult(s) ==
    /\ Len(s.map.rides) # s.RideTracker.lastRideCount
    /\ Len(checkForNewRides(s).RideTracker.newRidesDetected) > 0

\* getNewRides: the state it leaves; it returns the list it found.
getNewRides(s) ==
    [Ran(s, "getNewRides") EXCEPT !.RideTracker.newRidesDetected = <<>>,
              !.history.reported = Append(@, s.RideTracker.newRidesDetected)]

\* The box of a ride's recorded points; empty stands for the box whose
\* minX is still Infinity.
getRideCoverage(s, rideId) ==
    LET rt == s.RideTracker
        entrances == IF rideId \in DOMAIN rt.rideEntrances THEN rt.rideEntrances[rideId] ELSE <<>>
        exits == IF rideId \in DOMAIN rt.rideExits THEN rt.rideExits[rideId] ELSE <<>>
        paths == IF rideId \in DOMAIN rt.ridePaths THEN rt.ridePaths[rideId] ELSE <<>>
        xs == {entrances[i].x : i \in 1..Len(entrances)} \cup {exits[i].x : i \in 1..Len(exits)}
                \cup {paths[i].x : i \in 1..Len(paths)}
        ys == {entrances[i].y : i \in 1..Len(entrances)} \cup {exits[i].y : i \in 1..Len(exits)}
                \cup {paths[i].y : i \in 1..Len(paths)}
        lo(S) == CHOOSE v \in S : \A w \in S : v <= w
        hi(S) == CHOOSE v \in S : \A w \in S : v >= w
    IN  IF xs = {} THEN [empty |-> TRUE, minX |-> 0, minY |-> 0, maxX |-> 0, maxY |-> 0]
        ELSE [empty |-> FALSE, minX |-> Max(0, lo(xs) - 3), minY |-> Max(0, lo(ys) - 3),
              maxX |-> hi(xs) + 3, maxY |-> hi(ys) + 3]

(***************************************************************************)
(* CrimeDetector                                                           *)
(***************************************************************************)
crimeSampleCap == 300
securityCrimeThreshold == 3

RECURSIVE crimeElements(_, _, _, _)
crimeElements(s, elements, j, pathTile) ==
    IF j > Len(elements) THEN s
    ELSE crimeElements(
             IF elements[j].type = "footpath" /\ elements[j].isBroken
             THEN [s EXCEPT !.CrimeDetector.vandalismCount = @ + 1,
                            !.CrimeDetector.crimeHotspots =
                                HashAdd(@, 16, pathTile.x, pathTile.y, "vandalism")]
             ELSE s, elements, j + 1, pathTile)

RECURSIVE sampleCrime(_, _)
sampleCrime(s, i) ==
    IF i > Len(s.ParkAnalyzer.pathTiles) \/ i > crimeSampleCap THEN s
    ELSE LET pathTile == s.ParkAnalyzer.pathTiles[i]
         IN  sampleCrime(crimeElements(s, getTile(s.map, pathTile.x, pathTile.y),
                                       1, pathTile), i + 1)

CrimeDetectorUpdate(s) ==
    sampleCrime([Ran(s, "CrimeDetector.update")
                    EXCEPT !.CrimeDetector.vandalismCount = 0,
                           !.CrimeDetector.crimeHotspots = <<>>], 1)

getCrimeLevel(s) == s.CrimeDetector.vandalismCount
needsMoreSecurity(s) == s.CrimeDetector.vandalismCount >= securityCrimeThreshold

\* sort(function(a, b) { return b.count - a.count; })
Hotspots(cells, scale) ==
    LET list == [i \in 1..Len(cells) |->
                   [x |-> cells[i].key[1] * scale, y |-> cells[i].key[2] * scale,
                    count |-> Len(cells[i].items)]]
    IN  SortBy(list, [e \in {list[i] : i \in 1..Len(list)} |-> 0 - e.count])

getCrimeHotspots(s, maxCount) ==
    Slice(Hotspots(s.CrimeDetector.crimeHotspots, 16), IF maxCount = 0 THEN 5 ELSE maxCount)

getGuestHotspots(s, maxCount) ==
    Slice(Hotspots(s.ParkAnalyzer.guestDensity, 16), IF maxCount = 0 THEN 10 ELSE maxCount)

(***************************************************************************)
(* GuestFeedbackAnalyzer and the periodic refreshes of ParkAnalyzer        *)
(***************************************************************************)
handymanLitterThreshold == 15
handymanDisgustThreshold == 10
entertainerHappinessThreshold == 60
UnhappyBelow == 153
NauseaAbove == 150

RECURSIVE Sum(_, _)
Sum(f, n) == IF n = 0 THEN 0 ELSE f[n] + Sum(f, n - 1)

CountIn(seq, S) == Cardinality({i \in 1..Len(seq) : seq[i] \in S})

\* Math.round((total / count / 255) * 100)
HappinessPercent(total, count) == (200 * total + 255 * count) \div (510 * count)

GuestFeedbackUpdate(s0) ==
    LET s == Ran(s0, "GuestFeedbackAnalyzer.update")
        guests == Guests(s.map.scene)
        n == Len(guests)
        disgust == Sum([i \in 1..n |->
                          CountIn(guests[i].thoughts,
                                  {"disgusting", "bad_litter", "path_disgusting", "vandalism"})
                          + (IF guests[i].nausea > NauseaAbove THEN 1 ELSE 0)], n)
        litter == Sum([i \in 1..n |-> CountIn(guests[i].thoughts, {"bad_litter", "litter"})], n)
        unhappy == Cardinality({i \in 1..n : guests[i].happiness < UnhappyBelow})
        totalHappiness == Sum([i \in 1..n |-> guests[i].happiness], n)
    IN  [s EXCEPT !.GuestFeedbackAnalyzer =
            [disgustCount |-> disgust,
             litterComplaints |-> litter,
             unhappyGuestCount |-> unhappy,
             totalGuests |-> n,
             happinessPercent |-> IF n > 0 THEN HappinessPercent(totalHappiness, n)
                                  ELSE @.happinessPercent]]

needsMoreHandymen(s) ==
    \/ s.GuestFeedbackAnalyzer.disgustCount >= handymanDisgustThreshold
    \/ s.GuestFeedbackAnalyzer.litterComplaints >= handymanLitterThreshold
    \/ s.ParkAnalyzer.totalLitter > handymanLitterThreshold * 2

\* needsMoreEntertainers with the threshold included
needsMoreEntertainersAtThreshold(s) ==
    s.GuestFeedbackAnalyzer.happinessPercent <= entertainerHappinessThreshold

needsMoreEntertainers(s) ==
    s.GuestFeedbackAnalyzer.happinessPercent < entertainerHappinessThreshold

\* sort(function(a, b) { return a.happiness - b.happiness; })
getUnhappyAreas(s) ==
    LET cells == s.ParkAnalyzer.guestDensity
        total(c) == Sum([i \in 1..Len(c.items) |-> c.items[i].value.happiness], Len(c.items))
        crowded == SelectSeq(cells, LAMBDA c : Len(c.items) > 2
                                               /\ total(c) < UnhappyBelow * Len(c.items))
        areas == [i \in 1..Len(crowded) |->
                    [x |-> crowded[i].key[1] * 16, y |-> crowded[i].key[2] * 16,
                     happiness |-> HappinessPercent(total(crowded[i]), Len(crowded[i].items))]]
    IN  SortBy(areas, [e \in {areas[i] : i \in 1..Len(areas)} |-> e.happiness])

updateLitterAndVandalism(s) ==
    [Ran(s, "updateLitterAndVandalism")
        EXCEPT !.ParkAnalyzer.totalLitter = Len(Litter(s.map.scene)),
               !.ParkAnalyzer.totalVandalism = 0]

RECURSIVE addGuests(_, _, _)
addGuests(cells, guests, i) ==
    IF i > Len(guests) THEN cells
    ELSE addGuests(HashAdd(cells, 16, guests[i].x \div TileUnits, guests[i].y \div TileUnits,
                           guests[i]), guests, i + 1)

updateGuestDensity(s) ==
    [Ran(s, "updateGuestDensity")
        EXCEPT !.ParkAnalyzer.guestDensity = addGuests(<<>>, Guests(s.map.scene), 1),
               !.ParkAnalyzer.totalGuests = Len(Guests(s.map.scene))]

(***************************************************************************)
(* CONFIG (the defaults of the source) and DeterministicRandom             *)
(***************************************************************************)
DefaultConfig ==
    [enabled |-> TRUE, autoHireEnabled |-> TRUE, smartHiringEnabled |-> TRUE,
     autoReanalyze |-> TRUE, autoGenZones |-> TRUE,
     handymanEnabled |-> TRUE, handymanAutoHire |-> TRUE,
     mechanicAutoHire |-> TRUE, securityAutoHire |-> TRUE,
     entertainerAutoHire |-> TRUE, mechanicPerNewRide |-> TRUE,
     handymanSweepEnabled |-> TRUE, handymanMowEnabled |-> FALSE,
     handymanWaterEnabled |-> TRUE, handymanEmptyBinsEnabled |-> TRUE]

\* per role: MinCount, MaxCount and TargetRatio (as a fraction)
Role ==
    [handyman |-> [MinCount |-> 2, MaxCount |-> 50, ratio |-> <<1, 100>>],
     mechanic |-> [MinCount |-> 1, MaxCount |-> 30, ratio |-> <<15, 100>>],
     security |-> [MinCount |-> 0, MaxCount |-> 20, ratio |-> <<2, 1000>>],
     entertainer |-> [MinCount |-> 0, MaxCount |-> 20, ratio |-> <<1, 1000>>]]

\* floor(10^6 * frac(sin(seed * 12.9898) * 43758.5453)) for seed = 0, 1, ...
RandomTable ==
    <<0, 921690, 57218, 558222, 373733, 453479, 626086, 165580, 329110, 539624,
      971512, 821189, 179043, 995171, 816025, 441816, 926878, 434195, 644186,
      322643, 760377, 556030, 660876, 419338, 135763, 330469, 495323, 317,
      161905, 420193, 985081, 723408, 285701, 418043, 200597, 575920, 981520,
      920568, 470276, 768205, 596654>>

\* the seed taken from the manager's own tick counter
getSeedFromTickCounter(s) == s.StaffManager.tickCounter

getSeed(s) == s.date
random(s, offset) == RandomTable[((getSeed(s) + offset) % Len(RandomTable)) + 1]
randomInt(s, min, max, offset) == ((random(s, offset) * (max - min + 1)) \div 1000000) + min

(***************************************************************************)
(* StaffManager                                                            *)
(***************************************************************************)
OfType(staff, type) == SelectSeq(staff, LAMBDA m : m.staffType = type)

\* map.staffQuery = "throws": map.getAllEntities('staff') throws, the catch
\* swallows it after the five lists were emptied
updateStaffLists(s0) ==
    LET cleared == [Ran(s0, "updateStaffLists")
                       EXCEPT !.StaffManager.allStaff = <<>>,
                              !.StaffManager.handymen = <<>>,
                              !.StaffManager.mechanics = <<>>,
                              !.StaffManager.security = <<>>,
                              !.StaffManager.entertainers = <<>>]
        staff == s0.map.staff
        stale == Len(staff) # s0.StaffManager.lastStaffCount
    IN  IF s0.map.staffQuery = "throws" THEN cleared
        ELSE [cleared
                EXCEPT !.StaffManager.allStaff = staff,
                       !.StaffManager.handymen = OfType(staff, "handyman"),
                       !.StaffManager.mechanics = OfType(staff, "mechanic"),
                       !.StaffManager.security = OfType(staff, "security"),
                       !.StaffManager.entertainers = OfType(staff, "entertainer"),
                       !.StaffManager.statistics.totalStaff = Len(staff),
                       !.StaffManager.statistics.handymenCount = Len(OfType(staff, "handyman")),
                       !.StaffManager.statistics.mechanicsCount = Len(OfType(staff, "mechanic")),
                       !.StaffManager.statistics.securityCount = Len(OfType(staff, "security")),
                       !.StaffManager.statistics.entertainersCount = Len(OfType(staff, "entertainer")),
                       !.StaffManager.zonesNeedRegeneration = IF stale THEN TRUE ELSE @,
                       !.StaffManager.lastStaffCount = Len(staff),
                       !.trace.sizeChanged = @ \/ stale]

HandymanOrders(c) ==
    (IF c.handymanSweepEnabled THEN SWEEPING ELSE 0)
    + (IF c.handymanWaterEnabled THEN WATERING ELSE 0)
    + (IF c.handymanEmptyBinsEnabled THEN EMPTY_BINS ELSE 0)
    + (IF c.handymanMowEnabled THEN MOWING ELSE 0)

hireStaff(s, staffType) ==
    IF ~canModifyGameState(s) THEN s
    ELSE LET staffTypeNum == CHOOSE n \in 0..3 : StaffTypes[n + 1] = staffType
             orders == IF staffType = "handyman" THEN HandymanOrders(s.CONFIG)
                       ELSE IF staffType = "mechanic" THEN INSPECT + FIX
                       ELSE 0
             entertainerType == IF staffType = "entertainer"
                                THEN randomInt(s, 0, 6, getGameTick(s))
                                ELSE 0
         IN  add(s, "staffhire",
                 [autoPosition |-> TRUE, staffType |-> staffTypeNum,
                  entertainerType |-> entertainerType, staffOrders |-> orders],
                 "staffhire")

RECURSIVE hireMechanics(_, _)
hireMechanics(s, n) ==
    IF n = 0 THEN s
    ELSE LET s1 == [s EXCEPT !.StaffManager.statistics.newRidesDetected = @ + 1]
         IN  hireMechanics(
                 IF s1.CONFIG.mechanicAutoHire
                    /\ Len(s1.StaffManager.mechanics) < Role.mechanic.MaxCount
                 THEN [hireStaff(s1, "mechanic")
                          EXCEPT !.StaffManager.statistics.smartHires.mechanics = @ + 1]
                 ELSE s1, n - 1)

\* checkSmartHiring without the CONFIG.autoHireEnabled half of its first gate
checkSmartHiringIgnoringAutoHire(s0) ==
    LET report(t) ==
            [hireMechanics(getNewRides(t), Len(t.RideTracker.newRidesDetected))
                EXCEPT !.StaffManager.zonesNeedRegeneration = TRUE]
        newRides(s) ==
            IF s.CONFIG.mechanicPerNewRide
            THEN IF checkForNewRidesResult(s) THEN report(checkForNewRides(s))
                 ELSE checkForNewRides(s)
            ELSE s
        crimeLevel(t) ==
            [t EXCEPT !.StaffManager.statistics.crimeDetected = getCrimeLevel(t)]
        security(s) ==
            IF s.CONFIG.securityAutoHire /\ needsMoreSecurity(s)
               /\ Len(s.StaffManager.security) < Role.security.MaxCount
            THEN [hireStaff(s, "security")
                     EXCEPT !.StaffManager.statistics.smartHires.security = @ + 1]
            ELSE s
        disgust(t) ==
            [t EXCEPT !.StaffManager.statistics.disgustComplaints =
                          t.GuestFeedbackAnalyzer.disgustCount]
        handymen(s) ==
            IF s.CONFIG.handymanAutoHire /\ needsMoreHandymen(s)
               /\ Len(s.StaffManager.handymen) < Role.handyman.MaxCount
            THEN [hireStaff(s, "handyman")
                     EXCEPT !.StaffManager.statistics.smartHires.handymen = @ + 1]
            ELSE s
        entertainers(s) ==
            IF s.CONFIG.entertainerAutoHire /\ needsMoreEntertainers(s)
               /\ Len(s.StaffManager.entertainers) < Role.entertainer.MaxCount
            THEN [hireStaff(s, "entertainer")
                     EXCEPT !.StaffManager.statistics.smartHires.entertainers = @ + 1]
            ELSE s
    IN  IF ~s0.CONFIG.smartHiringEnabled THEN s0
        ELSE IF ~canModifyGameState(s0) THEN s0
        ELSE Trigger(entertainers(handymen(disgust(GuestFeedbackUpdate(
                 security(crimeLevel(CrimeDetectorUpdate(
                     newRides(Trigger(Ran(s0, "checkSmartHiring"), "event"))))))))),
                     "")

checkSmartHiring(s0) ==
    LET report(t) ==
            [hireMechanics(getNewRides(t), Len(t.RideTracker.newRidesDetected))
                EXCEPT !.StaffManager.zonesNeedRegeneration = TRUE]
        newRides(s) ==
            IF s.CONFIG.mechanicPerNewRide
            THEN IF checkForNewRidesResult(s) THEN report(checkForNewRides(s))
                 ELSE checkForNewRides(s)
            ELSE s
        crimeLevel(t) ==
            [t EXCEPT !.StaffManager.statistics.crimeDetected = getCrimeLevel(t)]
        security(s) ==
            IF s.CONFIG.securityAutoHire /\ needsMoreSecurity(s)
               /\ Len(s.StaffManager.security) < Role.security.MaxCount
            THEN [hireStaff(s, "security")
                     EXCEPT !.StaffManager.statistics.smartHires.security = @ + 1]
            ELSE s
        disgust(t) ==
            [t EXCEPT !.StaffManager.statistics.disgustComplaints =
                          t.GuestFeedbackAnalyzer.disgustCount]
        handymen(s) ==
            IF s.CONFIG.handymanAutoHire /\ needsMoreHandymen(s)
               /\ Len(s.StaffManager.handymen) < Role.handyman.MaxCount
            THEN [hireStaff(s, "handyman")
                     EXCEPT !.StaffManager.statistics.smartHires.handymen = @ + 1]
            ELSE s
        entertainers(s) ==
            IF s.CONFIG.entertainerAutoHire /\ needsMoreEntertainers(s)
               /\ Len(s.StaffManager.entertainers) < Role.entertainer.MaxCount
            THEN [hireStaff(s, "entertainer")
                     EXCEPT !.StaffManager.statistics.smartHires.entertainers = @ + 1]
            ELSE s
    IN  IF ~s0.CONFIG.smartHiringEnabled \/ ~s0.CONFIG.autoHireEnabled THEN s0
        ELSE IF ~canModifyGameState(s0) THEN s0
        ELSE Trigger(entertainers(handymen(disgust(GuestFeedbackUpdate(
                 security(crimeLevel(CrimeDetectorUpdate(
                     newRides(Trigger(Ran(s0, "checkSmartHiring"), "event"))))))))),
                     "")

\* the target without the Math.max against MinCount
TargetWithoutMin(role, metric) ==
    Min(role.MaxCount, CeilDiv(metric * role.ratio[1], role.ratio[2]))

\* Math.max(MinCount, Math.min(MaxCount, Math.ceil(metric * TargetRatio)))
Target(role, metric) ==
    Max(role.MinCount, Min(role.MaxCount, CeilDiv(metric * role.ratio[1], role.ratio[2])))

checkAutoHire(s0) ==
    LET guestCount(s) == IF s.StaffManager.statistics.totalStaff > 0
                         THEN s.ParkAnalyzer.totalGuests
                         ELSE Len(Guests(s.map.scene))
        handymen(s, guests) ==
            IF s.CONFIG.handymanAutoHire
               /\ Len(s.StaffManager.handymen) < Target(Role.handyman, guests)
            THEN hireStaff(s, "handyman") ELSE s
        mechanics(s) ==
            IF s.CONFIG.mechanicAutoHire
               /\ Len(s.StaffManager.mechanics)
                    < Target(Role.mechanic, s.ParkAnalyzer.totalRides)
            THEN hireStaff(s, "mechanic") ELSE s
        security(s, guests) ==
            IF s.CONFIG.securityAutoHire
               /\ Len(s.StaffManager.security) < Target(Role.security, guests)
            THEN hireStaff(s, "security") ELSE s
        entertainers(s, guests) ==
            IF s.CONFIG.entertainerAutoHire
               /\ Len(s.StaffManager.entertainers) < Target(Role.entertainer, guests)
            THEN hireStaff(s, "entertainer") ELSE s
        hire(s, guests) ==
            entertainers(security(mechanics(handymen(s, guests)), guests), guests)
    IN  IF ~s0.CONFIG.autoHireEnabled THEN s0
        ELSE IF ~canModifyGameState(s0) THEN s0
        ELSE Trigger(hire(Trigger(Ran(s0, "checkAutoHire"), "ratio"), guestCount(s0)), "")

\* setStaffPatrolArea without the upper clamp of the first corner
setStaffPatrolAreaUnclamped(s, staffId, x1, y1, x2, y2, mode) ==
    IF ~canModifyGameState(s) THEN s
    ELSE IF staffId < 0 THEN s
    ELSE LET mapWidth == s.map.size[1]
             mapHeight == s.map.size[2]
             cx1 == Max(0, Floor2(x1))
             cy1 == Max(0, Floor2(y1))
             cx2 == Max(cx1, Min(Floor2(x2), mapWidth - 1))
             cy2 == Max(cy1, Min(Floor2(y2), mapHeight - 1))
         IN  add(s, "staffsetpatrolarea",
                 [id |-> staffId, x1 |-> cx1 * TileUnits, y1 |-> cy1 * TileUnits,
                  x2 |-> cx2 * TileUnits, y2 |-> cy2 * TileUnits, mode |-> mode],
                 "staffsetpatrolarea")

\* x1, y1, x2, y2 arrive in half-tile units; staff ids are numbers.
setStaffPatrolArea(s, staffId, x1, y1, x2, y2, mode) ==
    IF ~canModifyGameState(s) THEN s
    ELSE IF staffId < 0 THEN s
    ELSE LET mapWidth == s.map.size[1]
             mapHeight == s.map.size[2]
             cx1 == Max(0, Min(Floor2(x1), mapWidth - 1))
             cy1 == Max(0, Min(Floor2(y1), mapHeight - 1))
             cx2 == Max(cx1, Min(Floor2(x2), mapWidth - 1))
             cy2 == Max(cy1, Min(Floor2(y2), mapHeight - 1))
         IN  add(s, "staffsetpatrolarea",
                 [id |-> staffId, x1 |-> cx1 * TileUnits, y1 |-> cy1 * TileUnits,
                  x2 |-> cx2 * TileUnits, y2 |-> cy2 * TileUnits, mode |-> mode],
                 "staffsetpatrolarea")

RECURSIVE clearZones(_, _)
clearZones(s, i) ==
    IF i > Len(s.StaffManager.allStaff) THEN s
    ELSE clearZones(setStaffPatrolArea(s, s.StaffManager.allStaff[i].id, 0, 0, 0, 0, 2), i + 1)

\* the grid giving every member cell 0
RECURSIVE gridZonesFirstCell(_, _, _, _, _)
gridZonesFirstCell(s, members, i, zoneSize, overlap) ==
    IF i >= Len(members) THEN s
    ELSE gridZonesFirstCell(
             setStaffPatrolArea(s, members[i + 1].id, 0, 0,
                 2 * Min(zoneSize + overlap, s.map.size[1] - 1),
                 2 * Min(zoneSize + overlap, s.map.size[2] - 1), 0),
             members, i + 1, zoneSize, overlap)

\* the uniform grid of generateHandymanPatrolZones and of the mechanics'
\* fallback; i counts from 0
RECURSIVE gridZones(_, _, _, _, _)
gridZones(s, members, i, zoneSize, overlap) ==
    IF i >= Len(members) THEN s
    ELSE LET mapWidth == s.map.size[1]
             mapHeight == s.map.size[2]
             zonesX == CeilDiv(mapWidth, zoneSize)
             totalZones == zonesX * CeilDiv(mapHeight, zoneSize)
             zoneIndex == i % totalZones
             zx == zoneIndex % zonesX
             zy == zoneIndex \div zonesX
         IN  gridZones(
                 setStaffPatrolArea(s, members[i + 1].id,
                     2 * (zx * zoneSize), 2 * (zy * zoneSize),
                     2 * Min((zx + 1) * zoneSize + overlap, mapWidth - 1),
                     2 * Min((zy + 1) * zoneSize + overlap, mapHeight - 1), 0),
                 members, i + 1, zoneSize, overlap)

generateHandymanPatrolZones(s) ==
    IF Len(s.StaffManager.handymen) = 0 THEN s
    ELSE gridZones(s, s.StaffManager.handymen, 0, patrolZoneSize, patrolZoneOverlap)

\* Object.keys(RideTracker.knownRides): integer keys in ascending order
RECURSIVE Ascending(_)
Ascending(S) ==
    IF S = {} THEN <<>>
    ELSE LET m == CHOOSE v \in S : \A w \in S : v <= w
         IN  <<m>> \o Ascending(S \ {m})

\* union of the non-empty coverage boxes of rideIds[from+1 .. to]
RECURSIVE groupBox(_, _, _, _, _)
groupBox(s, rideIds, j, to, box) ==
    IF j >= to THEN box
    ELSE LET coverage == getRideCoverage(s, rideIds[j + 1])
         IN  groupBox(s, rideIds, j + 1, to,
                 IF coverage.empty THEN box
                 ELSE IF box.empty THEN coverage
                 ELSE [empty |-> FALSE,
                       minX |-> Min(box.minX, coverage.minX),
                       minY |-> Min(box.minY, coverage.minY),
                       maxX |-> Max(box.maxX, coverage.maxX),
                       maxY |-> Max(box.maxY, coverage.maxY)])

\* rideZones starting every group one ride late
RECURSIVE rideZonesFromSecond(_, _, _)
rideZonesFromSecond(s, rideIds, i) ==
    IF i >= Len(s.StaffManager.mechanics) THEN s
    ELSE LET mapWidth == s.map.size[1]
             mapHeight == s.map.size[2]
             ridesPerMechanic == CeilDiv(Len(rideIds), Len(s.StaffManager.mechanics))
             startIdx == i * ridesPerMechanic + 1
             endIdx == Min(startIdx + ridesPerMechanic, Len(rideIds))
             box == groupBox(s, rideIds, startIdx, endIdx,
                             [empty |-> TRUE, minX |-> 0, minY |-> 0, maxX |-> 0, maxY |-> 0])
         IN  rideZonesFromSecond(
                 IF box.empty THEN s
                 ELSE setStaffPatrolArea(s, s.StaffManager.mechanics[i + 1].id,
                          2 * Max(0, box.minX), 2 * Max(0, box.minY),
                          2 * Min(mapWidth - 1, box.maxX), 2 * Min(mapHeight - 1, box.maxY), 0),
                 rideIds, i + 1)

RECURSIVE rideZones(_, _, _)
rideZones(s, rideIds, i) ==
    IF i >= Len(s.StaffManager.mechanics) THEN s
    ELSE LET mapWidth == s.map.size[1]
             mapHeight == s.map.size[2]
             ridesPerMechanic == CeilDiv(Len(rideIds), Len(s.StaffManager.mechanics))
             startIdx == i * ridesPerMechanic
             endIdx == Min(startIdx + ridesPerMechanic, Len(rideIds))
             box == groupBox(s, rideIds, startIdx, endIdx,
                             [empty |-> TRUE, minX |-> 0, minY |-> 0, maxX |-> 0, maxY |-> 0])
         IN  rideZones(
                 IF box.empty THEN s
                 ELSE setStaffPatrolArea(s, s.StaffManager.mechanics[i + 1].id,
                          2 * Max(0, box.minX), 2 * Max(0, box.minY),
                          2 * Min(mapWidth - 1, box.maxX), 2 * Min(mapHeight - 1, box.maxY), 0),
                 rideIds, i + 1)

generateMechanicPatrolZones(s) ==
    IF Len(s.StaffManager.mechanics) = 0 THEN s
    ELSE LET rideIds == Ascending(DOMAIN s.RideTracker.knownRides)
         IN  IF Len(rideIds) = 0
             THEN gridZones(s, s.StaffManager.mechanics, 0, patrolZoneSize * 2, 0)
             ELSE rideZones(s, rideIds, 0)

\* the rectangle of patrolZoneSize around a centre given in half units
aroundCentre(s, staffId, centerX, centerY) ==
    LET radius == 2 * patrolZoneSize
    IN  setStaffPatrolArea(s, staffId,
            Max(0, centerX - radius), Max(0, centerY - radius),
            Min(2 * (s.map.size[1] - 1), centerX + radius),
            Min(2 * (s.map.size[2] - 1), centerY + radius), 0)

RECURSIVE securityZones(_, _, _, _)
securityZones(s, crimeHotspots, guestHotspots, i) ==
    IF i >= Len(s.StaffManager.security) THEN s
    ELSE LET entrances == s.ParkAnalyzer.entranceLocations
             centre == IF i + 1 <= Len(crimeHotspots)
                       THEN <<2 * crimeHotspots[i + 1].x, 2 * crimeHotspots[i + 1].y>>
                       ELSE IF i + 1 <= Len(guestHotspots)
                       THEN <<2 * guestHotspots[i + 1].x, 2 * guestHotspots[i + 1].y>>
                       ELSE IF Len(entrances) > 0
                       THEN <<2 * entrances[(i % Len(entrances)) + 1].x,
                              2 * entrances[(i % Len(entrances)) + 1].y>>
                       ELSE <<s.map.size[1], s.map.size[2]>>
         IN  securityZones(
                 aroundCentre(s, s.StaffManager.security[i + 1].id, centre[1], centre[2]),
                 crimeHotspots, guestHotspots, i + 1)

generateSecurityPatrolZones(s) ==
    IF Len(s.StaffManager.security) = 0 THEN s
    ELSE securityZones(s, getCrimeHotspots(s, Len(s.StaffManager.security)),
                       getGuestHotspots(s, Len(s.StaffManager.security)), 0)

RECURSIVE entertainerZones(_, _, _)
entertainerZones(s, targets, i) ==
    IF i >= Len(s.StaffManager.entertainers) THEN s
    ELSE LET entrances == s.ParkAnalyzer.entranceLocations
             target == IF Len(targets) > 0
                       THEN <<2 * targets[(i % Len(targets)) + 1].x,
                              2 * targets[(i % Len(targets)) + 1].y>>
                       ELSE IF Len(entrances) > 0
                       THEN <<2 * entrances[(i % Len(entrances)) + 1].x,
                              2 * entrances[(i % Len(entrances)) + 1].y>>
                       ELSE <<s.map.size[1], s.map.size[2]>>
         IN  entertainerZones(
                 aroundCentre(s, s.StaffManager.entertainers[i + 1].id, target[1], target[2]),
                 targets, i + 1)

generateEntertainerPatrolZones(s) ==
    IF Len(s.StaffManager.entertainers) = 0 THEN s
    ELSE LET unhappyAreas == getUnhappyAreas(s)
             guestHotspots == getGuestHotspots(s, Len(s.StaffManager.entertainers))
         IN  entertainerZones(s, IF Len(unhappyAreas) > 0 THEN unhappyAreas
                                 ELSE guestHotspots, 0)

\* What one call of generatePatrolZones found and did: the return it took
\* ("" when it went on to the strategies), the zones-stale flag before and
\* after, whether its roster refresh saw the roster size change, and the
\* number of effects it enqueued.
Regeneration(s0, r) ==
    [gate |-> IF ~canModifyGameState(s0) THEN "authority"
              ELSE IF ~s0.ParkAnalyzer.isAnalyzed THEN "scan"
              ELSE IF Len(r.StaffManager.allStaff) = 0 THEN "empty"
              ELSE "",
     staleBefore |-> s0.StaffManager.zonesNeedRegeneration,
     staleAfter |-> r.StaffManager.zonesNeedRegeneration,
     sizeChanged |-> r.StaffManager.lastStaffCount # s0.StaffManager.lastStaffCount,
     effects |-> Len(r.trace.added) - Len(s0.trace.added)]

\* generatePatrolZones without the return on an empty roster
generatePatrolZonesOnEmptyRoster(s0) ==
    LET strategies(s) ==
            [generateEntertainerPatrolZones(
               generateSecurityPatrolZones(
                 generateMechanicPatrolZones(
                   generateHandymanPatrolZones(clearZones(s, 1)))))
               EXCEPT !.StaffManager.zonesNeedRegeneration = FALSE]
        body(s) ==
            IF ~canModifyGameState(s) THEN s
            ELSE IF ~s.ParkAnalyzer.isAnalyzed THEN s
            ELSE strategies(updateStaffLists(Ran(s, "generatePatrolZones")))
        noted(r) == [r EXCEPT !.trace.regenerations = Append(@, Regeneration(s0, r))]
    IN  noted(body(s0))

\* generatePatrolZones clearing the existing zones after the strategies
generatePatrolZonesClearingLast(s0) ==
    LET strategies(s) ==
            IF Len(s.StaffManager.allStaff) = 0 THEN s
            ELSE [clearZones(
                    generateEntertainerPatrolZones(
                      generateSecurityPatrolZones(
                        generateMechanicPatrolZones(
                          generateHandymanPatrolZones(s)))), 1)
                    EXCEPT !.StaffManager.zonesNeedRegeneration = FALSE]
        body(s) ==
            IF ~canModifyGameState(s) THEN s
            ELSE IF ~s.ParkAnalyzer.isAnalyzed THEN s
            ELSE strategies(updateStaffLists(Ran(s, "generatePatrolZones")))
        noted(r) == [r EXCEPT !.trace.regenerations = Append(@, Regeneration(s0, r))]
    IN  noted(body(s0))

\* generatePatrolZones clearing the flag on entry
generatePatrolZonesClearingFirst(s0) ==
    LET strategies(s) ==
            IF Len(s.StaffManager.allStaff) = 0 THEN s
            ELSE Ran(generateEntertainerPatrolZones(
                   Ran(generateSecurityPatrolZones(
                     Ran(generateMechanicPatrolZones(
                       Ran(generateHandymanPatrolZones(clearZones(s, 1)),
                           "generateHandymanPatrolZones")),
                         "generateMechanicPatrolZones")),
                       "generateSecurityPatrolZones")),
                     "generateEntertainerPatrolZones")
        body(s) ==
            IF ~canModifyGameState(s) THEN s
            ELSE IF ~s.ParkAnalyzer.isAnalyzed THEN s
            ELSE strategies(updateStaffLists(Ran(s, "generatePatrolZones")))
        noted(r) == [r EXCEPT !.trace.regenerations = Append(@, Regeneration(s0, r))]
    IN  noted(body([s0 EXCEPT !.StaffManager.zonesNeedRegeneration = FALSE]))

\* generatePatrolZones without the check of ParkAnalyzer.isAnalyzed
generatePatrolZonesUnscanned(s0) ==
    LET strategies(s) ==
            IF Len(s.StaffManager.allStaff) = 0 THEN s
            ELSE [Ran(generateEntertainerPatrolZones(
                    Ran(generateSecurityPatrolZones(
                      Ran(generateMechanicPatrolZones(
                        Ran(generateHandymanPatrolZones(clearZones(s, 1)),
                            "generateHandymanPatrolZones")),
                          "generateMechanicPatrolZones")),
                        "generateSecurityPatrolZones")),
                      "generateEntertainerPatrolZones")
                    EXCEPT !.StaffManager.zonesNeedRegeneration = FALSE]
        body(s) ==
            IF ~canModifyGameState(s) THEN s
            ELSE strategies(updateStaffLists(Ran(s, "generatePatrolZones")))
        noted(r) == [r EXCEPT !.trace.regenerations = Append(@, Regeneration(s0, r))]
    IN  noted(body(s0))

generatePatrolZones(s0) ==
    LET strategies(s) ==
            IF Len(s.StaffManager.allStaff) = 0 THEN s
            ELSE [Ran(generateEntertainerPatrolZones(
                    Ran(generateSecurityPatrolZones(
                      Ran(generateMechanicPatrolZones(
                        Ran(generateHandymanPatrolZones(clearZones(s, 1)),
                            "generateHandymanPatrolZones")),
                          "generateMechanicPatrolZones")),
                        "generateSecurityPatrolZones")),
                      "generateEntertainerPatrolZones")
                    EXCEPT !.StaffManager.zonesNeedRegeneration = FALSE]
        body(s) ==
            IF ~canModifyGameState(s) THEN s
            ELSE IF ~s.ParkAnalyzer.isAnalyzed THEN s
            ELSE strategies(updateStaffLists(Ran(s, "generatePatrolZones")))
        noted(r) == [r EXCEPT !.trace.regenerations = Append(@, Regeneration(s0, r))]
    IN  noted(body(s0))

RECURSIVE handymanOrders(_, _)
handymanOrders(s, i) ==
    IF i > Len(s.StaffManager.handymen) THEN s
    ELSE LET handyman == s.StaffManager.handymen[i]
             orders == HandymanOrders(s.CONFIG)
         IN  handymanOrders(
                 IF handyman.orders # orders
                 THEN add(s, "staffsetorders",
                          [id |-> handyman.id, staffOrders |-> orders], "staffsetorders")
                 ELSE s, i + 1)

processHandymen(s) ==
    IF ~s.CONFIG.handymanEnabled \/ Len(s.StaffManager.handymen) = 0 THEN s
    ELSE handymanOrders(updateLitterAndVandalism(Ran(s, "processHandymen")), 1)

\* decide with the world-state refresh one tick late: > for >=
decideLate(s1, gameTick) ==
    LET smartHiring(s) ==
            IF gameTick - s.StaffManager.lastEventCheck >= eventCheckInterval
            THEN checkSmartHiring([s EXCEPT !.StaffManager.lastEventCheck = gameTick])
            ELSE s
        worldState(s) ==
            IF gameTick - s.StaffManager.lastAnalysisUpdate > analysisInterval
            THEN updateGuestDensity(updateLitterAndVandalism(
                     [s EXCEPT !.StaffManager.lastAnalysisUpdate = gameTick]))
            ELSE s
        roster(s) ==
            IF gameTick - s.StaffManager.lastStaffUpdate >= staffUpdateInterval
            THEN processHandymen(updateStaffLists(
                     [s EXCEPT !.StaffManager.lastStaffUpdate = gameTick]))
            ELSE s
        ratioHiring(s) ==
            IF gameTick - s.StaffManager.lastAutoHireCheck >= autoHireCheckInterval
            THEN checkAutoHire([s EXCEPT !.StaffManager.lastAutoHireCheck = gameTick])
            ELSE s
        rescan(s) ==
            IF s.CONFIG.autoReanalyze
               /\ gameTick - s.StaffManager.lastAutoReanalyze >= autoReanalyzeInterval
            THEN [startAnalysis([s EXCEPT !.StaffManager.lastAutoReanalyze = gameTick])
                    EXCEPT !.StaffManager.statistics.autoReanalyzeCount = @ + 1,
                           !.StaffManager.zonesNeedRegeneration = TRUE]
            ELSE s
        regenerate(s) ==
            IF s.ParkAnalyzer.isAnalyzed
               /\ Len(s.StaffManager.allStaff) > 0
               /\ (s.StaffManager.zonesNeedRegeneration
                   \/ s.StaffManager.statistics.autoGenZonesCount = 0)
            THEN [generatePatrolZones(s)
                    EXCEPT !.StaffManager.statistics.autoGenZonesCount = @ + 1]
            ELSE s
        zones(s) ==
            IF s.CONFIG.autoGenZones
               /\ gameTick - s.StaffManager.lastAutoGenZones >= autoGenZonesInterval
            THEN regenerate([s EXCEPT !.StaffManager.lastAutoGenZones = gameTick])
            ELSE s
    IN  zones(rescan(ratioHiring(roster(worldState(smartHiring(s1))))))

\* decide regenerating the zones at every zone check, stale or not
decideAlwaysRegenerating(s1, gameTick) ==
    LET smartHiring(s) ==
            IF gameTick - s.StaffManager.lastEventCheck >= eventCheckInterval
            THEN checkSmartHiring([s EXCEPT !.StaffManager.lastEventCheck = gameTick])
            ELSE s
        worldState(s) ==
            IF gameTick - s.StaffManager.lastAnalysisUpdate >= analysisInterval
            THEN updateGuestDensity(updateLitterAndVandalism(
                     [s EXCEPT !.StaffManager.lastAnalysisUpdate = gameTick]))
            ELSE s
        roster(s) ==
            IF gameTick - s.StaffManager.lastStaffUpdate >= staffUpdateInterval
            THEN processHandymen(updateStaffLists(
                     [s EXCEPT !.StaffManager.lastStaffUpdate = gameTick]))
            ELSE s
        ratioHiring(s) ==
            IF gameTick - s.StaffManager.lastAutoHireCheck >= autoHireCheckInterval
            THEN checkAutoHire([s EXCEPT !.StaffManager.lastAutoHireCheck = gameTick])
            ELSE s
        rescan(s) ==
            IF s.CONFIG.autoReanalyze
               /\ gameTick - s.StaffManager.lastAutoReanalyze >= autoReanalyzeInterval
            THEN [startAnalysis([s EXCEPT !.StaffManager.lastAutoReanalyze = gameTick])
                    EXCEPT !.StaffManager.statistics.autoReanalyzeCount = @ + 1,
                           !.StaffManager.zonesNeedRegeneration = TRUE]
            ELSE s
        regenerate(s) ==
            IF s.ParkAnalyzer.isAnalyzed
               /\ Len(s.StaffManager.allStaff) > 0
            THEN [generatePatrolZones(s)
                    EXCEPT !.StaffManager.statistics.autoGenZonesCount = @ + 1]
            ELSE s
        zones(s) ==
            IF s.CONFIG.autoGenZones
               /\ gameTick - s.StaffManager.lastAutoGenZones >= autoGenZonesInterval
            THEN regenerate([s EXCEPT !.StaffManager.lastAutoGenZones = gameTick])
            ELSE s
    IN  zones(rescan(ratioHiring(roster(worldState(smartHiring(s1))))))

\* onTick after the drain and the scan check: every sub-system at its own
\* interval
decide(s1, gameTick) ==
    LET smartHiring(s) ==
            IF gameTick - s.StaffManager.lastEventCheck >= eventCheckInterval
            THEN checkSmartHiring([s EXCEPT !.StaffManager.lastEventCheck = gameTick])
            ELSE s
        worldState(s) ==
            IF gameTick - s.StaffManager.lastAnalysisUpdate >= analysisInterval
            THEN updateGuestDensity(updateLitterAndVandalism(
                     [s EXCEPT !.StaffManager.lastAnalysisUpdate = gameTick]))
            ELSE s
        roster(s) ==
            IF gameTick - s.StaffManager.lastStaffUpdate >= staffUpdateInterval
            THEN processHandymen(updateStaffLists(
                     [s EXCEPT !.StaffManager.lastStaffUpdate = gameTick]))
            ELSE s
        ratioHiring(s) ==
            IF gameTick - s.StaffManager.lastAutoHireCheck >= autoHireCheckInterval
            THEN checkAutoHire([s EXCEPT !.StaffManager.lastAutoHireCheck = gameTick])
            ELSE s
        rescan(s) ==
            IF s.CONFIG.autoReanalyze
               /\ gameTick - s.StaffManager.lastAutoReanalyze >= autoReanalyzeInterval
            THEN [startAnalysis([s EXCEPT !.StaffManager.lastAutoReanalyze = gameTick])
                    EXCEPT !.StaffManager.statistics.autoReanalyzeCount = @ + 1,
                           !.StaffManager.zonesNeedRegeneration = TRUE]
            ELSE s
        regenerate(s) ==
            IF s.ParkAnalyzer.isAnalyzed
               /\ Len(s.StaffManager.allStaff) > 0
               /\ (s.StaffManager.zonesNeedRegeneration
                   \/ s.StaffManager.statistics.autoGenZonesCount = 0)
            THEN [generatePatrolZones(s)
                    EXCEPT !.StaffManager.statistics.autoGenZonesCount = @ + 1]
            ELSE s
        zones(s) ==
            IF s.CONFIG.autoGenZones
               /\ gameTick - s.StaffManager.lastAutoGenZones >= autoGenZonesInterval
            THEN regenerate([s EXCEPT !.StaffManager.lastAutoGenZones = gameTick])
            ELSE s
    IN  zones(rescan(ratioHiring(roster(worldState(smartHiring(s1))))))

\* onTick draining the queue after the decisions instead of before them
onTickDrainLast(s0, script) ==
    IF ~s0.CONFIG.enabled THEN s0
    ELSE LET gameTick == getGameTick(s0)
             s1 == [s0 EXCEPT !.StaffManager.tickCounter = gameTick]
         IN  IF ~s1.ParkAnalyzer.isAnalyzed THEN process(runAnalysisStep(s1), script)
             ELSE process(decide(s1, gameTick), script)

\* onTick going on to the decisions after a scan step
onTickNoEarlyReturn(s0, script) ==
    IF ~s0.CONFIG.enabled THEN s0
    ELSE LET gameTick == getGameTick(s0)
             s1 == process([s0 EXCEPT !.StaffManager.tickCounter = gameTick], script)
         IN  IF ~s1.ParkAnalyzer.isAnalyzed THEN decide(runAnalysisStep(s1), gameTick)
             ELSE decide(s1, gameTick)

\* onTick reading the clock and draining the queue before the check of
\* CONFIG.enabled
onTickDrainingWhenDisabled(s0, script) ==
    LET gameTick == getGameTick(s0)
        s1 == process([s0 EXCEPT !.StaffManager.tickCounter = gameTick], script)
    IN  IF ~s0.CONFIG.enabled THEN s1
        ELSE IF ~s1.ParkAnalyzer.isAnalyzed THEN runAnalysisStep(s1)
        ELSE decide(s1, gameTick)

\* The scheduler.  script is what the gateway answers during this tick.
onTick(s0, script) ==
    IF ~s0.CONFIG.enabled THEN s0
    ELSE LET gameTick == getGameTick(s0)
             s1 == process([s0 EXCEPT !.StaffManager.tickCounter = gameTick], script)
         IN  IF ~s1.ParkAnalyzer.isAnalyzed THEN runAnalysisStep(s1)
             ELSE decide(s1, gameTick)

(***************************************************************************)
(* Init: the objects as their literals construct them, in a world the host *)
(* has loaded.                                                             *)
(***************************************************************************)
\* rosters: the staff the loaded park may hold; limit: how many the host
\* lets a park hold.  HostIn: the host and every object but StaffManager.
HostIn(worlds, budget, rosters, limit) ==
    /\ network \in NetworkModes
    /\ \E world \in worlds, scene \in Scenes, staff \in rosters :
          map = [size |-> world.size, scene |-> scene, rides |-> world.rides,
                 staff |-> staff, staffLimit |-> limit, staffQuery |-> "ok",
                 throwingTiles |-> {}, nextEntity |-> FirstEntity]
    /\ date = 0
    /\ CONFIG = DefaultConfig
    /\ ActionQueue = [queue |-> <<>>]
    /\ ParkAnalyzer =
          [guestDensity |-> <<>>, pathTiles |-> <<>>, rideLocations |-> <<>>,
           entranceLocations |-> <<>>, queueLocations |-> <<>>, totalPathTiles |-> 0,
           totalLitter |-> 0, totalVandalism |-> 0, totalRides |-> 0, totalGuests |-> 0,
           isAnalyzed |-> FALSE, analysisProgress |-> 0, analysisTotal |-> 0]
    /\ RideTracker =
          [knownRides |-> <<>>, rideEntrances |-> <<>>, rideExits |-> <<>>,
           ridePaths |-> <<>>, newRidesDetected |-> <<>>, lastRideCount |-> 0]
    /\ CrimeDetector = [vandalismCount |-> 0, crimeHotspots |-> <<>>]
    /\ GuestFeedbackAnalyzer =
          [disgustCount |-> 0, litterComplaints |-> 0, unhappyGuestCount |-> 0,
           totalGuests |-> 0, happinessPercent |-> 50]
    /\ gateway = [executed |-> <<>>, discarded |-> <<>>, issued |-> 0, origin |-> <<>>]
    /\ history = [loaded |-> FALSE, hostEvents |-> 0, hostBudget |-> budget,
                  visited |-> <<>>, steps |-> 0, completions |-> 0,
                  searches |-> <<>>, reported |-> <<>>, watched |-> 0]
    /\ trace = [op |-> "init", ran |-> {}, dispatched |-> <<>>, discarded |-> <<>>,
                added |-> <<>>, retracked |-> {}, trigger |-> "",
                sizeChanged |-> FALSE, regenerations |-> <<>>, threw |-> <<>>,
                analyzedAtStart |-> FALSE]

StartIn(worlds, budget, rosters, limit) ==
    /\ HostIn(worlds, budget, rosters, limit)
    /\ StaffManager =
          [allStaff |-> <<>>, handymen |-> <<>>, mechanics |-> <<>>, security |-> <<>>,
           entertainers |-> <<>>, lastStaffUpdate |-> 0, lastAnalysisUpdate |-> 0,
           lastAutoHireCheck |-> 0, lastAutoReanalyze |-> 0, lastAutoGenZones |-> 0,
           lastEventCheck |-> 0, tickCounter |-> 0, zonesNeedRegeneration |-> TRUE,
           lastStaffCount |-> 0,
           statistics |->
              [totalStaff |-> 0, handymenCount |-> 0, mechanicsCount |-> 0,
               securityCount |-> 0, entertainersCount |-> 0, staffHired |-> 0,
               ordersChanged |-> 0, patrolZonesSet |-> 0, patrolZonesFailed |-> 0,
               autoReanalyzeCount |-> 0, autoGenZonesCount |-> 0, crimeDetected |-> 0,
               disgustComplaints |-> 0, newRidesDetected |-> 0,
               smartHires |-> [handymen |-> 0, mechanics |-> 0, security |-> 0,
                               entertainers |-> 0]]]

StartWith(budget, rosters, limit) == StartIn(Worlds, budget, rosters, limit)

Start(budget) == StartWith(budget, InitialRosters, MaxStaff)

Init == Start(MaxHostEvents)

(***************************************************************************)
(* The handlers.                                                           *)
(***************************************************************************)
\* StaffManager.initialize(), called by main() when the plugin is loaded
initialize(s) == scanAllRides(startAnalysis(s))

Main ==
    /\ ~history.loaded
    /\ Becomes([initialize(Begin("main")) EXCEPT !.history.loaded = TRUE])

\* interval.tick: the host advances its clock and calls onTick
Tick ==
    /\ history.loaded
    /\ date < MaxTick
    /\ \E script \in GatewayScripts :
          Becomes(onTick([Begin("tick") EXCEPT !.date = @ + 1], script))

\* what the player and the host do between ticks, a bounded number of times
HostEvent(op) == [Begin(op) EXCEPT !.history.hostEvents = @ + 1]
MayHost == history.loaded /\ history.hostEvents < history.hostBudget

\* map.change: the host has loaded another map
MapChangeIn(worlds) ==
    /\ MayHost
    /\ \E world \in worlds :
          LET s == [HostEvent("map.change") EXCEPT !.map.size = world.size,
                                                   !.map.rides = world.rides]
              s1 == startAnalysis(s)
              s2 == scanAllRides([s1 EXCEPT !.RideTracker.knownRides = <<>>])
          IN  Becomes([s2 EXCEPT !.StaffManager.zonesNeedRegeneration = TRUE])

MapChange == MapChangeIn(Worlds)

\* the player builds or demolishes a ride or stall
Build(ids) ==
    /\ MayHost
    /\ \E id \in ids :
          /\ \A i \in 1..Len(map.rides) : map.rides[i] # id
          /\ Becomes([HostEvent("build") EXCEPT !.map.rides = Append(@, id)])

BuildRide == Build(RideIds)

DemolishRide ==
    /\ MayHost
    /\ \E i \in 1..Len(map.rides) :
          Becomes([HostEvent("demolish") EXCEPT !.map.rides =
                       SubSeq(@, 1, i - 1) \o SubSeq(@, i + 1, Len(@))])

\* the window's buttons
ReanalyzeButton ==
    /\ MayHost
    /\ Becomes([scanAllRides(startAnalysis(HostEvent("btn_reanalyze")))
                   EXCEPT !.StaffManager.zonesNeedRegeneration = TRUE])

GenZonesButton ==
    /\ MayHost
    /\ Becomes(generatePatrolZones(
                   [HostEvent("btn_genzones")
                       EXCEPT !.StaffManager.zonesNeedRegeneration = TRUE]))

HireButton ==
    /\ MayHost
    /\ \E n \in 1..Len(StaffTypes) :
          Becomes(hireStaff(HostEvent("btn_hire"), StaffTypes[n]))

\* the window's checkboxes
syncAutoHireCheckboxes(s, checked) ==
    [s EXCEPT !.CONFIG.handymanAutoHire = checked,
              !.CONFIG.mechanicAutoHire = checked,
              !.CONFIG.securityAutoHire = checked,
              !.CONFIG.entertainerAutoHire = checked]

onChange(s, name, c) ==
    IF name = "autoHireEnabled"
    THEN syncAutoHireCheckboxes([s EXCEPT !.CONFIG[name] = c], c)
    ELSE [s EXCEPT !.CONFIG[name] = c]

Toggle(names) ==
    /\ MayHost
    /\ \E name \in names :
          Becomes(onChange(HostEvent("checkbox"), name, ~CONFIG[name]))

ToggleCheckbox == Toggle({"enabled", "smartHiringEnabled"})

Next ==
    \/ Main
    \/ Tick
    \/ MapChange
    \/ BuildRide
    \/ DemolishRide
    \/ ReanalyzeButton
    \/ GenZonesButton
    \/ HireButton
    \/ ToggleCheckbox

Spec == Init /\ [][Next]_vars

(***************************************************************************)
(* The ride tracker over a longer run of world events: a single-player     *)
(* park without guests or staff in which the player builds and demolishes  *)
(* rides, re-analyzes and loads other maps.                                *)
(***************************************************************************)
InitRides ==
    /\ Start(MaxHostEvents + 1)
    /\ network = "none"
    /\ map.scene = "quiet"
    /\ map.staff = <<>>

NextRides ==
    \/ Main
    \/ Tick
    \/ MapChange
    \/ BuildRide
    \/ DemolishRide
    \/ ReanalyzeButton

SpecRides == InitRides /\ [][NextRides]_vars

(***************************************************************************)
(* Parks loaded with a role at its configured maximum: twenty security     *)
(* guards or twenty entertainers.  Only the plugin hires here; the player  *)
(* toggles checkboxes and regenerates zones.                               *)
(***************************************************************************)
FullRosters ==
    {[i \in 1..Role[type].MaxCount |-> [id |-> 100 + i, staffType |-> type, orders |-> 0]] :
        type \in {"security", "entertainer"}}

InitFullRoster ==
    /\ StartWith(MaxHostEvents, FullRosters, Role.security.MaxCount + MaxStaff)
    /\ network = "server"

NextFullRoster ==
    \/ Main
    \/ Tick
    \/ GenZonesButton
    \/ ToggleCheckbox

SpecFullRoster == InitFullRoster /\ [][NextFullRoster]_vars

(***************************************************************************)
(* The two hiring triggers under the window's hiring checkboxes: every     *)
(* network mode, park and roster, with the player switching Auto-Hire and  *)
(* Smart Hiring on and off between ticks.                                  *)
(***************************************************************************)
ToggleHiring == Toggle({"autoHireEnabled", "smartHiringEnabled", "entertainerAutoHire"})

InitHiring == Start(MaxHostEvents + 1)

NextHiring ==
    \/ Main
    \/ Tick
    \/ ToggleHiring

SpecHiring == InitHiring /\ [][NextHiring]_vars

(***************************************************************************)
(* The scheduler left running for ever on an instance that may modify the  *)
(* game state, in a park that has staff: the player switches Auto-Hire off *)
(* before the first tick and then only watches.  The program reads its     *)
(* tick stamps only in differences gameTick - last... >= interval and its  *)
(* counters only against zero, so after each tick the clock's origin is    *)
(* moved up to keep date at Horizon, stamps older than Horizon ticks stay  *)
(* at 0, counters stop at 1 and the record of the effects that have left   *)
(* the queue is dropped: the run is infinite over finitely many states.    *)
(***************************************************************************)
Intervals ==
    {eventCheckInterval, analysisInterval, staffUpdateInterval,
     autoHireCheckInterval, autoReanalyzeInterval, autoGenZonesInterval}
Horizon == CHOOSE h \in Intervals : \A i \in Intervals : i <= h

\* a world too small for a scan to outlast autoReanalyzeInterval, and one
\* whose scan takes autoReanalyzeInterval - 1 ticks
LiveWorlds ==
    {[size |-> <<1, 1>>, rides |-> <<>>],
     [size |-> <<MaxDim, MaxDim>>, rides |-> <<0>>]}

Renumbered(queue) == [i \in 1..Len(queue) |-> [queue[i] EXCEPT !.id = i]]

Rebase(s) ==
    LET shift == Max(0, s.date - Horizon)
        Stamp(v) == Max(0, v - shift)
        Seen(n) == Min(n, 1)
    IN  [s EXCEPT
           !.date = @ - shift,
           !.StaffManager.tickCounter = Stamp(@),
           !.StaffManager.lastStaffUpdate = Stamp(@),
           !.StaffManager.lastAnalysisUpdate = Stamp(@),
           !.StaffManager.lastAutoHireCheck = Stamp(@),
           !.StaffManager.lastAutoReanalyze = Stamp(@),
           !.StaffManager.lastAutoGenZones = Stamp(@),
           !.StaffManager.lastEventCheck = Stamp(@),
           !.StaffManager.statistics.ordersChanged = Seen(@),
           !.StaffManager.statistics.patrolZonesSet = Seen(@),
           !.StaffManager.statistics.patrolZonesFailed = Seen(@),
           !.StaffManager.statistics.autoReanalyzeCount = Seen(@),
           !.StaffManager.statistics.autoGenZonesCount = Seen(@),
           !.ActionQueue.queue = Renumbered(@),
           !.gateway = [executed |-> <<>>, discarded |-> <<>>,
                        issued |-> Len(s.ActionQueue.queue),
                        origin |-> [i \in 1..Len(s.ActionQueue.queue) |->
                                      [s.gateway.origin[s.ActionQueue.queue[i].id]
                                          EXCEPT !.date = 0]]]]

InitLive ==
    /\ StartIn(LiveWorlds, 0, InitialRosters \ {<<>>}, MaxStaff)
    /\ canModifyGameState(State)

AutoHireOff ==
    /\ history.loaded
    /\ date = 0
    /\ CONFIG.autoHireEnabled
    /\ Becomes(onChange(Begin("checkbox"), "autoHireEnabled", FALSE))

TickOn ==
    /\ history.loaded
    /\ ~CONFIG.autoHireEnabled
    /\ \E script \in GatewayScripts :
          Becomes(Rebase(onTick([Begin("tick") EXCEPT !.date = @ + 1], script)))

NextLive ==
    \/ Main
    \/ AutoHireOff
    \/ TickOn

\* The host calls main once and interval.tick on every tick: weak fairness
\* of the three actions, with ENABLED of main and of the tick written as
\* their guards (main and a tick can always be taken when their guard holds).
SpecLive ==
    /\ InitLive
    /\ [][NextLive]_vars
    /\ WF_vars(AutoHireOff)
    /\ ([]<>history.loaded \/ []<><<Main>>_vars)
    /\ ([]<>(~history.loaded \/ CONFIG.autoHireEnabled) \/ []<><<TickOn>>_vars)

(***************************************************************************)
(* The same endless run with one effect of the queue watched: at any time  *)
(* an observer may pick an effect that waits in the queue, and             *)
(* history.watched holds its issue number until the tick that hands it to  *)
(* the gateway (0: none watched, -1: the watched effect left the queue     *)
(* without being dispatched).                                              *)
(***************************************************************************)
Watched(s, after) ==
    LET w == s.history.watched
    IN  IF w <= 0 THEN w
        ELSE IF \E i \in 1..Len(s.ActionQueue.queue) : s.ActionQueue.queue[i].id = w
        THEN after.ActionQueue.queue[
                 CHOOSE i \in 1..Len(s.ActionQueue.queue) : s.ActionQueue.queue[i].id = w].id
        ELSE IF \E i \in 1..Len(s.trace.dispatched) : s.trace.dispatched[i].id = w
        THEN 0
        ELSE -1

RebaseWatched(s) == [Rebase(s) EXCEPT !.history.watched = Watched(s, Rebase(s))]

Watch ==
    /\ history.loaded
    /\ history.watched = 0
    /\ \E k \in 1..Len(ActionQueue.queue) :
          Becomes([State EXCEPT !.history.watched = ActionQueue.queue[k].id])

TickWatched ==
    /\ history.loaded
    /\ ~CONFIG.autoHireEnabled
    /\ \E script \in GatewayScripts :
          Becomes(RebaseWatched(onTick([Begin("tick") EXCEPT !.date = @ + 1], script)))

NextDrain ==
    \/ Main
    \/ AutoHireOff
    \/ TickWatched
    \/ Watch

SpecDrain ==
    /\ InitLive
    /\ [][NextDrain]_vars
    /\ WF_vars(AutoHireOff)
    /\ ([]<>history.loaded \/ []<><<Main>>_vars)
    /\ ([]<>(~history.loaded \/ CONFIG.autoHireEnabled) \/ []<><<TickWatched>>_vars)

(***************************************************************************)
(* The roster under the player's and the host's hands: parks whose staff   *)
(* the player fires, rosters holding a member whose staffType is none of   *)
(* the four the manager knows, and a host whose staff query starts and     *)
(* stops throwing; the player switches Auto Gen Patrol Zones and presses   *)
(* Generate Zones.                                                         *)
(***************************************************************************)
OddRosters ==
    {<<>>,
     <<[id |-> 0, staffType |-> "handyman", orders |-> 0]>>,
     <<[id |-> 0, staffType |-> "security", orders |-> 0],
       [id |-> 1, staffType |-> "unknown", orders |-> 0]>>}

InitRoster ==
    /\ StartIn(LiveWorlds, MaxHostEvents + 3, OddRosters, MaxStaff)
    /\ map.scene = "quiet"
    /\ network # "server"

FireStaff ==
    /\ MayHost
    /\ \E i \in 1..Len(map.staff) :
          Becomes([HostEvent("fire") EXCEPT !.map.staff =
                       SubSeq(@, 1, i - 1) \o SubSeq(@, i + 1, Len(@))])

StaffQueryFlips ==
    /\ MayHost
    /\ Becomes([HostEvent("host") EXCEPT !.map.staffQuery =
                    IF @ = "ok" THEN "throws" ELSE "ok"])

ToggleAutoGen == Toggle({"autoGenZones"})

NextRoster ==
    \/ Main
    \/ Tick
    \/ GenZonesButton
    \/ FireStaff
    \/ StaffQueryFlips
    \/ ToggleAutoGen

SpecRoster == InitRoster /\ [][NextRoster]_vars

(***************************************************************************)
(* A ride built at the head of a path: worlds one tile high whose row 0    *)
(* is an entrance element followed by a chain of 1..MaxChain path tiles.   *)
(* The player builds ride 0, whose entrance coordinate is the first path   *)
(* tile, or ride 3, whose entrance coordinate is the entrance element      *)
(* next to it.                                                             *)
(***************************************************************************)
MaxChain == 6

ChainWorlds == {[size |-> <<k + 1, 1>>, rides |-> <<>>] : k \in 1..MaxChain}

\* the path tiles connected to the entrance of the ride built in such a world
PathChain(m) == {<<x, 0>> : x \in 1..(m.size[1] - 1)}

InitChain ==
    /\ StartIn(ChainWorlds, MaxHostEvents, InitialRosters, MaxStaff)
    /\ canModifyGameState(State)

BuildChainRide == Build({0, 3})

NextChain ==
    \/ Main
    \/ Tick
    \/ BuildChainRide

SpecChain == InitChain /\ [][NextChain]_vars

(***************************************************************************)
(* The incremental scan over every world of up to MaxDim x MaxDim cells,   *)
(* in a single-player park without rides, guests or staff: the player      *)
(* re-analyzes and loads other maps, also in the middle of a scan, and the *)
(* host's tile query starts and stops throwing for some cells.             *)
(***************************************************************************)
ScanWorlds ==
    {[size |-> <<w, h>>, rides |-> <<>>] : w \in 1..MaxDim, h \in 1..MaxDim}

\* the cells whose query throws: none, the first path tile of row 0, a cell
\* in the middle of the first and one at the head of the second step, or
\* every cell
ThrowingTiles ==
    {{}, {<<1, 0>>}, {<<1, 0>>, <<cellBudget % MaxDim, cellBudget \div MaxDim>>},
     (0..(MaxDim - 1)) \X (0..(MaxDim - 1))}

InitScan ==
    /\ StartIn(ScanWorlds, MaxHostEvents + 1, {<<>>}, MaxStaff)
    /\ network = "none"
    /\ map.scene = "quiet"

MapChangeScan == MapChangeIn(ScanWorlds)

TileQueryFlips ==
    /\ MayHost
    /\ \E tiles \in ThrowingTiles \ {map.throwingTiles} :
          Becomes([HostEvent("host") EXCEPT !.map.throwingTiles = tiles])

NextScan ==
    \/ Main
    \/ Tick
    \/ ReanalyzeButton
    \/ MapChangeScan
    \/ TileQueryFlips

SpecScan == InitScan /\ [][NextScan]_vars

(***************************************************************************)
(* v2.2.0 (advanced-staff-ai-manager.js): the Reset Statistics button.     *)
(* StaffManager holds the fields of the v2.2.0 literal, on a manager some  *)
(* way into a game: the roster has been refreshed, the sub-systems have    *)
(* run at tick date or not yet, and the automatic re-analysis and zone     *)
(* generation have run up to MaxAutoRuns times.  The player presses the    *)
(* hire buttons and Reset Statistics, and the gateway reports the results  *)
(* of effects to their callbacks.                                          *)
(***************************************************************************)
MaxAutoRuns == 2

Statistics220(staff, reanalyzed, generated) ==
    [totalStaff |-> Len(staff),
     handymenCount |-> Len(OfType(staff, "handyman")),
     mechanicsCount |-> Len(OfType(staff, "mechanic")),
     securityCount |-> Len(OfType(staff, "security")),
     entertainersCount |-> Len(OfType(staff, "entertainer")),
     staffHired |-> 0, staffFired |-> 0, ordersChanged |-> 0,
     patrolZonesSet |-> 0, patrolZonesFailed |-> 0, dispatchesMade |-> 0,
     litterCleaned |-> 0, ridesFixed |-> 0, ridesInspected |-> 0,
     vandalsStopped |-> 0, lastFrameTime |-> 0, avgFrameTime |-> 0,
     autoReanalyzeCount |-> reanalyzed, autoGenZonesCount |-> generated]

StaffManager220(staff, stamp, stale, reanalyzed, generated) ==
    [allStaff |-> staff, handymen |-> OfType(staff, "handyman"),
     mechanics |-> OfType(staff, "mechanic"), security |-> OfType(staff, "security"),
     entertainers |-> OfType(staff, "entertainer"),
     staffAssignments |-> <<>>, staffPerformance |-> <<>>,
     lastStaffUpdate |-> stamp, lastAnalysisUpdate |-> stamp,
     lastAutoHireCheck |-> stamp, lastAutoReanalyze |-> stamp,
     lastAutoGenZones |-> stamp, tickCounter |-> stamp,
     zonesNeedRegeneration |-> stale, lastStaffCount |-> Len(staff),
     statistics |-> Statistics220(staff, reanalyzed, generated)]

\* resetStatistics preserving nothing
resetStatisticsKeepingNothing(s) ==
    [s EXCEPT !.StaffManager.statistics = Statistics220(<<>>, 0, 0)]

resetStatistics(s) ==
    LET preserved ==
            [autoReanalyzeCount |-> s.StaffManager.statistics.autoReanalyzeCount,
             autoGenZonesCount |-> s.StaffManager.statistics.autoGenZonesCount]
    IN  [s EXCEPT !.StaffManager.statistics =
            [totalStaff |-> 0, handymenCount |-> 0, mechanicsCount |-> 0,
             securityCount |-> 0, entertainersCount |-> 0, staffHired |-> 0,
             staffFired |-> 0, ordersChanged |-> 0, patrolZonesSet |-> 0,
             patrolZonesFailed |-> 0, dispatchesMade |-> 0, litterCleaned |-> 0,
             ridesFixed |-> 0, ridesInspected |-> 0, vandalsStopped |-> 0,
             lastFrameTime |-> 0, avgFrameTime |-> 0,
             autoReanalyzeCount |-> preserved.autoReanalyzeCount,
             autoGenZonesCount |-> preserved.autoGenZonesCount]]

InitReset ==
    /\ HostIn({[size |-> <<1, 1>>, rides |-> <<>>]}, MaxHostEvents + 1,
              InitialRosters, MaxStaff)
    /\ map.scene = "quiet"
    /\ \E stamp \in {0, MaxTick}, stale \in BOOLEAN,
          reanalyzed \in 0..MaxAutoRuns, generated \in 0..MaxAutoRuns :
          StaffManager = StaffManager220(map.staff, stamp, stale, reanalyzed, generated)

MayPress == history.hostEvents < history.hostBudget

\* btn_hire_handyman .. btn_hire_entertainer
HireButton220 ==
    /\ MayPress
    /\ \E n \in 1..Len(StaffTypes) :
          Becomes(hireStaff(HostEvent("btn_hire"), StaffTypes[n]))

\* btn_reset
ResetButton ==
    /\ MayPress
    /\ Becomes(resetStatistics(HostEvent("btn_reset")))

\* the gateway reports the result of an effect to the callback it was
\* enqueued with
GatewayResult ==
    /\ MayPress
    /\ \E cb \in {"staffhire", "staffsetorders", "staffsetpatrolarea"}, error \in {0, 1} :
          Becomes(callback(HostEvent("result"), [callback |-> cb], error))

NextReset ==
    \/ HireButton220
    \/ ResetButton
    \/ GatewayResult

SpecReset == InitReset /\ [][NextReset]_vars

(***************************************************************************)
(* The scheduler under the window's three scheduling checkboxes: parks of  *)
(* LiveWorlds with or without staff and without guests, the player         *)
(* switching Enabled, Auto Re-Analyze and Auto Gen Patrol Zones on and off *)
(* between ticks.                                                          *)
(***************************************************************************)
InitSchedule ==
    /\ StartIn(LiveWorlds, MaxHostEvents + 1, InitialRosters, MaxStaff)
    /\ map.scene = "quiet"

ToggleSchedule == Toggle({"enabled", "autoReanalyze", "autoGenZones"})

NextSchedule ==
    \/ Main
    \/ Tick
    \/ ToggleSchedule

SpecSchedule == InitSchedule /\ [][NextSchedule]_vars

(***************************************************************************)
(* The detectors while the guests come and go: a single-player park of one *)
(* of the Worlds, with or without staff, whose guest population (the       *)
(* scene) the host changes between ticks.                                  *)
(***************************************************************************)
InitGuests ==
    /\ Start(MaxHostEvents + 1)
    /\ network = "none"

GuestsChange ==
    /\ MayHost
    /\ \E scene \in Scenes \ {map.scene} :
          Becomes([HostEvent("host") EXCEPT !.map.scene = scene])

NextGuests ==
    \/ Main
    \/ Tick
    \/ GuestsChange

SpecGuests == InitGuests /\ [][NextGuests]_vars

(***************************************************************************)
(* Mechanics and rides: single-player parks one tile high and MaxDim + 3   *)
(* tiles wide whose structure roster holds some of ride 0, ride 1 (no      *)
(* station data, so no coverage points) and ride 3, with one to three      *)
(* mechanics; the player builds rides, fires staff and presses Generate    *)
(* Zones.                                                                  *)
(***************************************************************************)
MechanicWorlds ==
    {[size |-> <<MaxDim + 3, 1>>, rides |-> rides] :
        rides \in {<<>>, <<0>>, <<1>>, <<1, 0>>, <<3, 1>>, <<0, 1, 3>>}}

MechanicRosters ==
    {[i \in 1..n |-> [id |-> 20 + i, staffType |-> "mechanic", orders |-> 0]] : n \in 1..3}

InitMechanics ==
    /\ StartIn(MechanicWorlds, MaxHostEvents + 1, MechanicRosters, MaxStaff)
    /\ network = "none"
    /\ map.scene = "quiet"

BuildTrackedRide == Build({0, 1, 3})

NextMechanics ==
    \/ Main
    \/ Tick
    \/ BuildTrackedRide
    \/ FireStaff
    \/ GenZonesButton

SpecMechanics == InitMechanics /\ [][NextMechanics]_vars

(***************************************************************************)
(* Properties.                                                             *)
(***************************************************************************)
Origin(item) == gateway.origin[item.id]
Occurrences(seq, v) == Cardinality({i \in 1..Len(seq) : seq[i] = v})
IsTickStep == date' # date

\* C1: one call of ActionQueue.process() hands at most maxPerTick effects to
\* the gateway; onTick calls it once, so no tick dispatches more than
\* maxPerTick effects however long the queue is, and no other handler
\* dispatches any.
C1_AtMostMaxPerTick ==
    /\ Len(trace.dispatched) <= maxPerTick
    /\ trace.op # "tick" => trace.dispatched = <<>>

\* a tick that dispatched maxPerTick effects and left behind an effect that
\* had been waiting since before the tick
C1_Witness ==
    /\ trace.op = "tick"
    /\ Len(trace.dispatched) = maxPerTick
    /\ \E i \in 1..Len(ActionQueue.queue) : Origin(ActionQueue.queue[i]).date < date

\* C2: on an instance whose canModifyGameState() is false nothing has ever
\* been handed to context.executeAction, whatever ticks, hire requests, zone
\* regenerations and handyman order passes went before.
C2_ObserverNeverDispatches ==
    ~canModifyGameState(State) => gateway.executed = <<>>

\* an observer on which effects were enqueued and later thrown away
C2_Witness ==
    /\ network = "client"
    /\ date >= 2
    /\ gateway.issued > 0
    /\ gateway.discarded # <<>>

\* C3: a call of process() without authority dispatches nothing and leaves
\* the queue empty, whatever the queue held: all of it is discarded, and
\* what the queue holds after the tick was added after the call.
C3_DiscardWithoutAuthority ==
    [][("process" \in trace'.ran /\ ~canModifyGameState(State))
          => /\ trace'.dispatched = <<>>
             /\ trace'.discarded = ActionQueue.queue
             /\ ActionQueue'.queue = trace'.added
             /\ gateway'.executed = gateway.executed]_vars

\* an observer's tick whose process() found effects in the queue
C3_Witness ==
    /\ network = "client"
    /\ trace.op = "tick"
    /\ "process" \in trace.ran
    /\ trace.discarded # <<>>

C5_DispatchNotBeforeNextTick ==
    \A i \in 1..Len(trace.dispatched) :
       Origin(trace.dispatched[i]).op = "tick" => Origin(trace.dispatched[i]).date < date

\* a tick dispatching an effect that the decisions of the tick before enqueued
C5_Witness ==
    /\ trace.op = "tick"
    /\ \E i \in 1..Len(trace.dispatched) :
          /\ Origin(trace.dispatched[i]).op = "tick"
          /\ Origin(trace.dispatched[i]).date = date - 1

\* C6: every effect ever added is in exactly one place: waiting in the
\* queue, dispatched (once), or discarded (once).  An effect that has been
\* dispatched or discarded is not in the queue again.
C6_ConsumedExactlyOnce ==
    LET everywhere == Ids(ActionQueue.queue) \o gateway.executed \o gateway.discarded
    IN  /\ Len(everywhere) = gateway.issued
        /\ \A id \in 1..gateway.issued : Occurrences(everywhere, id) = 1

\* effects dispatched by more than one drain while others still wait
C6_Witness ==
    /\ Len(gateway.executed) > maxPerTick
    /\ ActionQueue.queue # <<>>

C8_OnlyScanWhileIncomplete ==
    [][(IsTickStep /\ CONFIG.enabled /\ ~ParkAnalyzer.isAnalyzed)
          => /\ trace'.ran = {"process", "runAnalysisStep"}
             /\ trace'.added = <<>>
             /\ history'.steps = history.steps + 1
             /\ StaffManager' = [StaffManager EXCEPT
                                   !.tickCounter = date',
                                   !.statistics = StaffManager'.statistics]
             /\ RideTracker' = RideTracker
             /\ CrimeDetector' = CrimeDetector
             /\ GuestFeedbackAnalyzer' = GuestFeedbackAnalyzer]_vars

\* a tick that started with the scan incomplete although every interval had
\* elapsed, and that drained effects
C8_Witness ==
    /\ trace.op = "tick"
    /\ ~trace.analyzedAtStart
    /\ CONFIG.enabled
    /\ date >= autoGenZonesInterval
    /\ trace.dispatched # <<>>

\* C9: over the whole run no ride id occurs twice in what getNewRides() has
\* returned, neither in two results nor twice in one, and a getNewRides()
\* leaves the pending list empty.
C9_ReportedOnce ==
    /\ \A i, j \in 1..Len(history.reported) :
          \A k \in 1..Len(history.reported[i]), l \in 1..Len(history.reported[j]) :
             history.reported[i][k] = history.reported[j][l] => (i = j /\ k = l)
    /\ "getNewRides" \in trace.ran => RideTracker.newRidesDetected = <<>>

\* C10: for an id that is known, trackRide changes no record, starts no
\* coverage search and adds nothing to the newly-detected list, called
\* directly or through scanAllRides or checkForNewRides.
C10_TrackKnownChangesNothing ==
    \A id \in RideIds :
       Known(State, id) =>
          /\ LET t == trackRide(State, Ride(id))
             IN  /\ t.RideTracker = RideTracker
                 /\ t.history = history
          /\ \A t \in {scanAllRides(State), checkForNewRides(State)} :
                /\ t.RideTracker.knownRides[id] = RideTracker.knownRides[id]
                /\ Occurrences(t.history.searches, id) = Occurrences(history.searches, id)
                /\ Occurrences(t.RideTracker.newRidesDetected, id)
                      = Occurrences(RideTracker.newRidesDetected, id)

\* a handler other than the first scan called trackRide for a known id
C10_Witness ==
    /\ trace.retracked # {}
    /\ trace.op # "main"

\* C11: automatic hiring keeps every role within its configured maximum: a
\* park that starts with no role above its MaxCount never holds more
\* members of a role than that role's MaxCount.
C11_RoleCountWithinMax ==
    \A n \in 1..Len(StaffTypes) :
       Len(OfType(map.staff, StaffTypes[n])) <= Role[StaffTypes[n]].MaxCount

\* the metrics the targets are computed for: 0..MaxMetric guests or rides, and
\* the same numbers in thousands (a park needs 20000 guests for the
\* entertainer target to reach its maximum)
MaxMetric == 30
MetricScales == {1, 1000}

\* C12: for every role and every metric >= 0 the ratio-based target of
\* checkAutoHire, max(MinCount, min(MaxCount, ceil(metric * TargetRatio))),
\* lies between the role's MinCount and its MaxCount; so do the targets the
\* pass that just ran computed from the park's guest and ride counts.
C12_TargetWithinMinMax ==
    "checkAutoHire" \in trace.ran =>
        \A n \in 1..Len(StaffTypes) :
           \A metric \in {m * scale : m \in 0..MaxMetric, scale \in MetricScales}
                          \cup {ParkAnalyzer.totalGuests, ParkAnalyzer.totalRides,
                                Len(Guests(map.scene))} :
              /\ Role[StaffTypes[n]].MinCount <= Target(Role[StaffTypes[n]], metric)
              /\ Target(Role[StaffTypes[n]], metric) <= Role[StaffTypes[n]].MaxCount

\* a ratio pass in a park without guests that requested a handyman: the
\* ratio gives 0, the target is MinCount; and the largest metric puts every
\* role's target at MaxCount
C12_Witness ==
    /\ "checkAutoHire" \in trace.ran
    /\ map.scene = "quiet"
    /\ CeilDiv(ParkAnalyzer.totalGuests * Role.handyman.ratio[1], Role.handyman.ratio[2])
          < Role.handyman.MinCount
    /\ Len(StaffManager.handymen) < Target(Role.handyman, ParkAnalyzer.totalGuests)
    /\ \E i \in 1..Len(trace.added) :
          trace.added[i].action = "staffhire" /\ trace.added[i].args.staffType = 0
    /\ \A n \in 1..Len(StaffTypes) :
          Target(Role[StaffTypes[n]], MaxMetric * 1000) = Role[StaffTypes[n]].MaxCount

\* C13: a hire requested by either trigger was requested on an instance that
\* may modify the game state and with CONFIG.autoHireEnabled on, and one
\* requested by the event-based trigger with CONFIG.smartHiringEnabled on as
\* well; the ratio-based pass does not look at smartHiringEnabled: it runs on
\* every tick it is due on, and requests the same hires with the switch on
\* and off.
C13_HiringGates ==
    /\ \A i \in 1..Len(trace.added) :
          Origin(trace.added[i]).trigger # "" =>
             /\ trace.added[i].action = "staffhire"
             /\ canModifyGameState(State)
             /\ CONFIG.autoHireEnabled
             /\ Origin(trace.added[i]).trigger = "event" => CONFIG.smartHiringEnabled
    /\ "checkSmartHiring" \in trace.ran =>
          canModifyGameState(State) /\ CONFIG.autoHireEnabled /\ CONFIG.smartHiringEnabled
    /\ "checkAutoHire" \in trace.ran => canModifyGameState(State) /\ CONFIG.autoHireEnabled
    /\ (/\ trace.op = "tick"
        /\ StaffManager.lastAutoHireCheck = date
        /\ canModifyGameState(State)
        /\ CONFIG.autoHireEnabled) => "checkAutoHire" \in trace.ran
    /\ checkAutoHire([State EXCEPT !.CONFIG.smartHiringEnabled = FALSE]).ActionQueue
          = checkAutoHire([State EXCEPT !.CONFIG.smartHiringEnabled = TRUE]).ActionQueue

\* a tick with Smart Hiring switched off in a park whose guests complain:
\* the event-based pass did not run, the ratio-based pass requested a hire
C13_Witness ==
    /\ trace.op = "tick"
    /\ ~CONFIG.smartHiringEnabled
    /\ map.scene = "rowdy"
    /\ needsMoreHandymen(State)
    /\ "checkSmartHiring" \notin trace.ran
    /\ \E i \in 1..Len(trace.added) : Origin(trace.added[i]).trigger = "ratio"

\* C14: on an instance that may modify the game state, with the manager
\* enabled, autoGenZones on and staff in the park, whenever a roster refresh
\* has observed a changed roster size, generatePatrolZones runs on that tick
\* or on a later one.
C14_ZonesEventuallyRegenerated ==
    [](( /\ trace.sizeChanged
         /\ canModifyGameState(State)
         /\ CONFIG.enabled
         /\ CONFIG.autoGenZones
         /\ Len(map.staff) > 0 )
       => <>(trace.op = "tick" /\ "generatePatrolZones" \in trace.ran))

\* C15 as stated: a call of generatePatrolZones that returns at one of its
\* three gates (no authority, scan incomplete, refreshed roster empty) has
\* enqueued no effect and left zonesNeedRegeneration as it found it.
C15_GatedCallChangesNothing ==
    \A i \in 1..Len(trace.regenerations) :
       trace.regenerations[i].gate # "" =>
          /\ trace.regenerations[i].effects = 0
          /\ trace.regenerations[i].staleAfter = trace.regenerations[i].staleBefore

\* C15, amended: such a call has enqueued no effect; without authority or
\* with the scan incomplete it leaves zonesNeedRegeneration as it found it;
\* with an empty refreshed roster the flag is as before unless the refresh
\* found the roster size changed, which sets it.
C15_GatedCallEnqueuesNothing ==
    \A i \in 1..Len(trace.regenerations) :
       trace.regenerations[i].gate # "" =>
          /\ trace.regenerations[i].effects = 0
          /\ trace.regenerations[i].gate \in {"authority", "scan"} =>
                trace.regenerations[i].staleAfter = trace.regenerations[i].staleBefore
          /\ trace.regenerations[i].gate = "empty" =>
                trace.regenerations[i].staleAfter
                   = (trace.regenerations[i].staleBefore \/ trace.regenerations[i].sizeChanged)

\* the player pressed Generate Zones in a scanned park without staff on an
\* instance that may modify the game state: the call refreshed the roster,
\* found it empty and returned
C15_Witness ==
    /\ trace.op = "btn_genzones"
    /\ map.staff = <<>>
    /\ Len(trace.regenerations) = 1
    /\ trace.regenerations[1].gate = "empty"
    /\ "updateStaffLists" \in trace.ran
    /\ ActionQueue.queue = <<>>

\* C16: at the end of every handler in which updateStaffLists() ran, whatever
\* the host's roster holds and whether or not its staff query threw,
\* statistics.totalStaff is the sum of the four role counts.
C16_TotalStaffIsSumOfRoles ==
    "updateStaffLists" \in trace.ran =>
        StaffManager.statistics.totalStaff
           = StaffManager.statistics.handymenCount
             + StaffManager.statistics.mechanicsCount
             + StaffManager.statistics.securityCount
             + StaffManager.statistics.entertainersCount

\* C17: when a tick has found and tracked a newly built ride whose entrance
\* is connected to a chain of k <= maxDepth path tiles, the search has ended
\* with all k tiles recorded in the ride's ridePaths, and the ride's id has
\* been returned by getNewRides exactly once.
C17_ChainRecordedAndReportedOnce ==
    \A id \in {0, 3} :
       (/\ trace.op = "tick"
        /\ "checkForNewRides" \in trace.ran
        /\ Known(State, id)
        /\ RideTracker.knownRides[id].trackedAt = date
        /\ Cardinality(PathChain(map)) <= maxDepth) =>
           /\ \A cell \in PathChain(map) :
                 \E i \in 1..Len(RideTracker.ridePaths[id]) :
                    /\ RideTracker.ridePaths[id][i].type = "path"
                    /\ RideTracker.ridePaths[id][i].x = cell[1]
                    /\ RideTracker.ridePaths[id][i].y = cell[2]
           /\ Cardinality({<<i, k>> \in (1..Len(history.reported)) \X (1..MaxChain) :
                              /\ k <= Len(history.reported[i])
                              /\ history.reported[i][k] = id}) = 1

\* the scenario of the specification: five handymen in a world of 128 x 128
\* tiles, zones of 15 tiles with an overlap of 2
ScenarioHandymen == [i \in 1..5 |-> [id |-> i - 1, staffType |-> "handyman", orders |-> 0]]
ScenarioZones ==
    gridZones([State EXCEPT !.network = "none", !.map.size = <<128, 128>>,
                            !.trace.added = <<>>],
              ScenarioHandymen, 0, 15, 2).trace.added

\* the zone of the handyman at index i of a grid of size-tile cells with the
\* given overlap in a world of W x H tiles, in world units
GridCell(i, W, H, size, overlap) ==
    LET zonesX == CeilDiv(W, size)
        index == i % (zonesX * CeilDiv(H, size))
        zx == index % zonesX
        zy == index \div zonesX
    IN  [x1 |-> zx * size * TileUnits, y1 |-> zy * size * TileUnits,
         x2 |-> Min((zx + 1) * size + overlap, W - 1) * TileUnits,
         y2 |-> Min((zy + 1) * size + overlap, H - 1) * TileUnits]

\* C18: a regeneration that reached the strategies has enqueued for the
\* handyman at index i exactly one mode-0 zone, that of grid cell
\* i mod (ceil(W/size) * ceil(H/size)): x1 = zx * size,
\* x2 = min((zx + 1) * size + overlap, W - 1) with zx = index mod ceil(W/size),
\* likewise in y; and five handymen in a world of 128 x 128 with size 15 and
\* overlap 2 get cells 0..4 of a grid of 81 cells.
C18_HandymanGridZones ==
    (Len(trace.regenerations) = 1 /\ trace.regenerations[1].gate = "") =>
       /\ \A i \in 0..(Len(StaffManager.handymen) - 1) :
             \E j \in 1..Len(trace.added) :
                /\ trace.added[j].action = "staffsetpatrolarea"
                /\ trace.added[j].args =
                      [id |-> StaffManager.handymen[i + 1].id, mode |-> 0]
                      @@ GridCell(i, map.size[1], map.size[2],
                                  patrolZoneSize, patrolZoneOverlap)
                /\ \A k \in 1..Len(trace.added) :
                      (/\ trace.added[k].action = "staffsetpatrolarea"
                       /\ trace.added[k].args.id = StaffManager.handymen[i + 1].id
                       /\ trace.added[k].args.mode = 0) => k = j
       /\ CeilDiv(128, 15) * CeilDiv(128, 15) = 81
       /\ Len(ScenarioZones) = 5
       /\ \A i \in 0..4 :
             /\ ScenarioZones[i + 1].args = [id |-> i, mode |-> 0] @@ GridCell(i, 128, 128, 15, 2)
             /\ ScenarioZones[i + 1].args.x1 = i * 15 * TileUnits
             /\ ScenarioZones[i + 1].args.y1 = 0
             /\ ScenarioZones[i + 1].args.x2 = Min((i + 1) * 15 + 2, 127) * TileUnits

\* a regeneration with more handymen than the grid has cells in a row: one
\* of them got a cell that is not cell 0
C18_Witness ==
    /\ Len(trace.regenerations) = 1
    /\ trace.regenerations[1].gate = ""
    /\ Len(StaffManager.handymen) >= 2
    /\ \E i \in 1..(Len(StaffManager.handymen) - 1) :
          GridCell(i, map.size[1], map.size[2], patrolZoneSize, patrolZoneOverlap)
             # GridCell(0, map.size[1], map.size[2], patrolZoneSize, patrolZoneOverlap)

\* the guests' average happiness in a park of the given scene, as a rounded
\* percentage of the 0..255 scale; the park has guests
AverageHappinessPercent(scene) ==
    LET guests == Guests(scene)
        total == Sum([i \in 1..Len(guests) |-> guests[i].happiness], Len(guests))
    IN  CHOOSE p \in 0..100 :
           /\ 2 * 255 * Len(guests) * p <= 2 * 100 * total + 255 * Len(guests)
           /\ 2 * 100 * total + 255 * Len(guests) < 2 * 255 * Len(guests) * (p + 1)

\* what needsMoreEntertainers() returns after an update in a park of the
\* given scene
AfterUpdateIn(scene) ==
    needsMoreEntertainers(GuestFeedbackUpdate([State EXCEPT !.map.scene = scene]))

\* C19: after GuestFeedbackAnalyzer.update() in a park with guests,
\* needsMoreEntertainers() is true iff the guests' average happiness, as a
\* percentage, is below entertainerHappinessThreshold (60): true in a park
\* whose guests average 40%, false at 61% and at 60%; and the event-based
\* trigger requests an entertainer only when it is true.
C19_NeedsMoreEntertainers ==
    "GuestFeedbackAnalyzer.update" \in trace.ran =>
       /\ Guests(map.scene) # <<>> =>
             (needsMoreEntertainers(State)
                <=> AverageHappinessPercent(map.scene) < entertainerHappinessThreshold)
       /\ \A scene \in {"gloomy", "borderline", "content"} :
             AfterUpdateIn(scene)
                <=> AverageHappinessPercent(scene) < entertainerHappinessThreshold
       /\ AverageHappinessPercent("gloomy") = 40 /\ AfterUpdateIn("gloomy")
       /\ AverageHappinessPercent("content") = 61 /\ ~AfterUpdateIn("content")
       /\ AverageHappinessPercent("borderline") = 60 /\ ~AfterUpdateIn("borderline")
       /\ \A i \in 1..Len(trace.added) :
             (/\ Origin(trace.added[i]).trigger = "event"
              /\ trace.added[i].args.staffType = 3) => needsMoreEntertainers(State)

\* a tick whose update found the guests of the rowdy park at 51% and whose
\* event-based pass requested an entertainer
C19_Witness ==
    /\ "GuestFeedbackAnalyzer.update" \in trace.ran
    /\ map.scene = "rowdy"
    /\ GuestFeedbackAnalyzer.happinessPercent = 51
    /\ needsMoreEntertainers(State)
    /\ \E i \in 1..Len(trace.added) :
          /\ Origin(trace.added[i]).trigger = "event"
          /\ trace.added[i].args.staffType = 3

\* the arguments randomInt is tried with: min <= max, offsets up to MaxTick
RandomArgs == (0..1) \X {1, 6} \X (0..MaxTick)

\* an independent instance that has just been loaded: its host's clock is
\* at tick 0
FreshInstance == [State EXCEPT !.date = 0]

\* an independent instance on the same host clock: an observer whose manager
\* is disabled and has never run
IdleObserver ==
    [State EXCEPT !.network = "client", !.CONFIG.enabled = FALSE,
                  !.StaffManager.tickCounter = 0]

\* C20 as stated: randomInt is a function of (min, max, seed) alone: this
\* instance and an independent one return the same value for the same
\* arguments, and the value lies in min..max.
C20_PureInItsArguments ==
    \A a \in RandomArgs :
       /\ randomInt(State, a[1], a[2], a[3]) = randomInt(FreshInstance, a[1], a[2], a[3])
       /\ randomInt(State, a[1], a[2], a[3]) \in a[1]..a[2]

\* C20, amended: randomInt is a function of (min, max, offset) and of the
\* host's tick count date.ticksElapsed: two instances on the same tick return
\* the same value for the same arguments; for min <= max the value lies in
\* min..max; and the entertainer sub-type of every hire requested lies in
\* 0..6 and is the value drawn for the tick the hire was requested on.
C20_SameTickSameValue ==
    /\ \A a \in RandomArgs :
          /\ randomInt(State, a[1], a[2], a[3]) = randomInt(IdleObserver, a[1], a[2], a[3])
          /\ randomInt(State, a[1], a[2], a[3]) \in a[1]..a[2]
    /\ \A i \in 1..Len(trace.added) :
          trace.added[i].action = "staffhire" =>
             /\ trace.added[i].args.entertainerType \in 0..6
             /\ trace.added[i].args.entertainerType =
                   IF trace.added[i].args.staffType = 3
                   THEN randomInt([date |-> Origin(trace.added[i]).date], 0, 6,
                                  Origin(trace.added[i]).date)
                   ELSE 0

\* a tick after the first on which an entertainer was requested and the
\* draw gave a sub-type other than 0, which a draw on tick 0 does not give
C20_Witness ==
    /\ trace.op = "tick"
    /\ date > 1
    /\ randomInt(FreshInstance, 0, 6, date) # randomInt(State, 0, 6, date)
    /\ \E i \in 1..Len(trace.added) :
          /\ trace.added[i].action = "staffhire"
          /\ trace.added[i].args.staffType = 3
          /\ trace.added[i].args.entertainerType > 0

\* C21: Reset Statistics (v2.2.0) leaves every statistics counter and gauge
\* at zero except autoReanalyzeCount and autoGenZonesCount, which keep their
\* values, and changes nothing else: not the tick stamps, the stale flag or
\* the rosters of the manager, nor the queue, the configuration or the world.
C21_ResetKeepsTwoCounters ==
    [][trace'.op = "btn_reset"
          => /\ DOMAIN StaffManager'.statistics = DOMAIN StaffManager.statistics
             /\ \A f \in DOMAIN StaffManager.statistics :
                   StaffManager'.statistics[f] =
                      IF f \in {"autoReanalyzeCount", "autoGenZonesCount"}
                      THEN StaffManager.statistics[f] ELSE 0
             /\ [StaffManager' EXCEPT !.statistics = StaffManager.statistics]
                   = StaffManager
             /\ ActionQueue' = ActionQueue
             /\ CONFIG' = CONFIG
             /\ map' = map
             /\ gateway' = gateway]_vars

\* a reset on a manager with a roster, a waiting effect, the flag down and
\* both automatic counters above zero: the roster counters are back at zero
C21_Witness ==
    /\ trace.op = "btn_reset"
    /\ Len(StaffManager.allStaff) > 0
    /\ StaffManager.statistics.totalStaff = 0
    /\ StaffManager.statistics.autoReanalyzeCount > 0
    /\ StaffManager.statistics.autoGenZonesCount > 0
    /\ StaffManager.lastStaffUpdate > 0
    /\ ~StaffManager.zonesNeedRegeneration
    /\ ActionQueue.queue # <<>>

\* C22: one call of runAnalysisStep() visits at most cellBudget cells (500 in
\* the program), one per unit of progress; the cell visited at progress p
\* is (p mod width, floor(p / width)); the call returns true exactly when
\* analysisProgress >= analysisTotal after it; and a call on a complete scan
\* visits no cell.
C22_StepVisitsAtMostBudget ==
    LET r == runAnalysisStep(State)
        p == ParkAnalyzer.analysisProgress
        q == r.ParkAnalyzer.analysisProgress
        W == map.size[1]
        before == Len(history.visited)
    IN  /\ q - p \in 0..cellBudget
        /\ Len(r.history.visited) = before + (q - p)
        /\ \A k \in p..(q - 1) :
              r.history.visited[before + (k - p) + 1] = <<k % W, k \div W>>
        /\ runAnalysisStepResult(State) <=> (q >= r.ParkAnalyzer.analysisTotal)
        /\ (ParkAnalyzer.isAnalyzed \/ p >= ParkAnalyzer.analysisTotal)
              => r.history.visited = history.visited

\* a tick's step has just visited a full budget of cells of a world several
\* cells wide and high, ending in the middle of a row, and the step that
\* comes next will end the scan on fewer cells than the budget
C22_Witness ==
    /\ trace.op = "tick"
    /\ "runAnalysisStep" \in trace.ran
    /\ map.size[1] > 1 /\ map.size[2] > 1
    /\ ParkAnalyzer.analysisProgress = cellBudget
    /\ ParkAnalyzer.analysisProgress % map.size[1] # 0
    /\ ParkAnalyzer.analysisTotal - ParkAnalyzer.analysisProgress \in 1..(cellBudget - 1)
    /\ ~ParkAnalyzer.isAnalyzed
    /\ runAnalysisStepResult(State)

\* C23: a tile query that throws during a scan step costs the scan only the
\* data of that cell.  A step taken while some queries throw advances the
\* progress, visits the cells and completes the scan exactly as the same
\* step without failures does, and it records what that step records less
\* the entries of the throwing cells; so a scan of W x H cells is complete
\* after ceil(W*H / cellBudget) steps whatever failed.
C23_FailedTileIsNoData ==
    LET r == runAnalysisStep(State)
        clean == runAnalysisStep([State EXCEPT !.map.throwingTiles = {}])
        Answered(seq) ==
            SelectSeq(seq, LAMBDA c : <<c.x, c.y>> \notin map.throwingTiles)
        New(after, prior) == SubSeq(after, Len(prior) + 1, Len(after))
        W == map.size[1]
        H == map.size[2]
    IN  /\ r.ParkAnalyzer.analysisProgress = clean.ParkAnalyzer.analysisProgress
        /\ r.ParkAnalyzer.isAnalyzed = clean.ParkAnalyzer.isAnalyzed
        /\ r.history.visited = clean.history.visited
        /\ \A f \in {"pathTiles", "queueLocations", "rideLocations", "entranceLocations"} :
              r.ParkAnalyzer[f] =
                 ParkAnalyzer[f] \o Answered(New(clean.ParkAnalyzer[f], ParkAnalyzer[f]))
        /\ history.loaded =>
              /\ ParkAnalyzer.analysisProgress = Min(W * H, history.steps * cellBudget)
              /\ ParkAnalyzer.isAnalyzed <=> history.steps >= CeilDiv(W * H, cellBudget)

\* a scan of several steps is complete; the query of path tile (1,0) threw
\* and the tile is missing from pathTiles, while the path tile after it in
\* the same step and path tiles of later steps were recorded
C23_Witness ==
    /\ trace.op = "tick"
    /\ "runAnalysisStep" \in trace.ran
    /\ ParkAnalyzer.isAnalyzed
    /\ history.steps >= 2
    /\ <<1, 0>> \in map.throwingTiles
    /\ \A i \in 1..Len(ParkAnalyzer.pathTiles) :
          ParkAnalyzer.pathTiles[i] # [x |-> 1, y |-> 0]
    /\ \E i, j \in 1..Len(ParkAnalyzer.pathTiles) :
          /\ ParkAnalyzer.pathTiles[i] = [x |-> 2, y |-> 0]
          /\ ParkAnalyzer.pathTiles[j].y >= 1

\* the cells of a collection of located records
Cells(seq) == [i \in 1..Len(seq) |-> <<seq[i].x, seq[i].y>>]
\* whether the tile of a cell holds an element of a collection's kind
Holds(f, cell) ==
    LET elements == getTile([map EXCEPT !.throwingTiles = {}], cell[1], cell[2])
    IN  \E i \in 1..Len(elements) :
           \/ f = "pathTiles" /\ elements[i].type = "footpath"
           \/ f = "queueLocations" /\ elements[i].type = "footpath" /\ elements[i].isQueue
           \/ f = "rideLocations" /\ elements[i].type = "track"
           \/ f = "entranceLocations" /\ elements[i].type = "entrance"

C25_ThrowDoesNotAbortDrain ==
    [][("process" \in trace'.ran /\ canModifyGameState(State))
          => LET queue == ActionQueue.queue
                 n == Min(maxPerTick, Len(queue))
             IN  /\ trace'.dispatched = SubSeq(queue, 1, n)
                 /\ \A i \in 1..Len(trace'.threw) :
                       \E k \in 1..n : trace'.threw[i] = queue[k]
                 /\ ActionQueue'.queue = SubSeq(queue, n + 1, Len(queue)) \o trace'.added
                 /\ StaffManager'.tickCounter = date'
                 /\ ~ParkAnalyzer.isAnalyzed => "runAnalysisStep" \in trace'.ran
                 /\ (ParkAnalyzer.isAnalyzed
                       /\ date' - StaffManager.lastEventCheck >= eventCheckInterval)
                       => StaffManager'.lastEventCheck = date']_vars

\* a tick whose first dispatch threw and which went on to dispatch up to the
\* cap, leaving effects queued that had waited since before the tick
C25_Witness ==
    /\ trace.op = "tick"
    /\ Len(trace.dispatched) = maxPerTick
    /\ Len(trace.threw) = 1
    /\ trace.threw[1] = trace.dispatched[1]
    /\ \E i \in 1..Len(ActionQueue.queue) : Origin(ActionQueue.queue[i]).date < date
    /\ StaffManager.lastEventCheck = date

\* C26: effects are dispatched in the order in which they were enqueued,
\* over any number of ticks: of two dispatched effects the one enqueued
\* first (the smaller issue number) was dispatched first, and every effect
\* still waiting was enqueued after every dispatched one and waits in the
\* order of enqueueing.
C26_DispatchedInFifoOrder ==
    LET waiting == Ids(ActionQueue.queue)
    IN  /\ \A i, j \in 1..Len(gateway.executed) :
              i < j => gateway.executed[i] < gateway.executed[j]
        /\ \A i, j \in 1..Len(waiting) : i < j => waiting[i] < waiting[j]
        /\ \A i \in 1..Len(gateway.executed), j \in 1..Len(waiting) :
              gateway.executed[i] < waiting[j]

\* effects enqueued on different ticks have been dispatched by more than
\* one drain, the later drain taking effects of two different ticks, while
\* others still wait
C26_Witness ==
    /\ trace.op = "tick"
    /\ Len(gateway.executed) > maxPerTick
    /\ \E i, j \in 1..Len(trace.dispatched) :
          Origin(trace.dispatched[i]).date < Origin(trace.dispatched[j]).date
    /\ ActionQueue.queue # <<>>

\* whether the effect with an issue number is the patrol-area effect of an
\* agent with a mode, and the clear of the run of generatePatrolZones that
\* enqueued a set effect: the last clear of the agent enqueued before it
WasPatrol(id, agent, mode) == gateway.origin[id].patrol = <<agent, mode>>
ClearOfRun(c, e, agent) ==
    /\ c < e
    /\ WasPatrol(c, agent, 2)
    /\ \A k \in (c + 1)..(e - 1) : ~WasPatrol(k, agent, 2)
    /\ gateway.origin[c].op = gateway.origin[e].op
    /\ gateway.origin[c].date = gateway.origin[e].date
IsPatrol(item, mode) == item.action = "staffsetpatrolarea" /\ item.args.mode = mode

\* C27: a run of generatePatrolZones enqueues the clear effects (mode 2), one
\* for every member of the roster, before any set effect (mode 0), and every
\* agent that is given a rectangle has been given a clear before it; hence
\* whenever a set effect has been dispatched, the clear of the same agent
\* from the same run was dispatched before it.
C27_ClearBeforeSet ==
    /\ \A i, j \in 1..Len(trace.added) :
          (IsPatrol(trace.added[i], 2) /\ IsPatrol(trace.added[j], 0)) => i < j
    /\ \A j \in 1..Len(trace.added) :
          IsPatrol(trace.added[j], 0) =>
             \E i \in 1..(j - 1) : /\ IsPatrol(trace.added[i], 2)
                                   /\ trace.added[i].args.id = trace.added[j].args.id
    /\ \A r \in 1..Len(trace.regenerations) :
          trace.regenerations[r].gate = "" =>
             \A m \in 1..Len(StaffManager.allStaff) :
                \E i \in 1..Len(trace.added) :
                   /\ IsPatrol(trace.added[i], 2)
                   /\ trace.added[i].args.id = StaffManager.allStaff[m].id
    /\ \A p \in 1..Len(gateway.executed), agent \in 0..(map.nextEntity - 1) :
          WasPatrol(gateway.executed[p], agent, 0) =>
             \E q \in 1..(p - 1) :
                ClearOfRun(gateway.executed[q], gateway.executed[p], agent)

\* a tick dispatches the new rectangle of an agent whose clear, enqueued by
\* the same run, was dispatched by the drain of an earlier tick
C27_Witness ==
    /\ trace.op = "tick"
    /\ \E i \in 1..Len(trace.dispatched) :
          /\ IsPatrol(trace.dispatched[i], 0)
          /\ \A k \in 1..Len(trace.dispatched) :
                ~(/\ IsPatrol(trace.dispatched[k], 2)
                  /\ trace.dispatched[k].args.id = trace.dispatched[i].args.id)
          /\ \E q \in 1..Len(gateway.executed) :
                ClearOfRun(gateway.executed[q], trace.dispatched[i].id,
                           trace.dispatched[i].args.id)

Strategies ==
    {"generateHandymanPatrolZones", "generateMechanicPatrolZones",
     "generateSecurityPatrolZones", "generateEntertainerPatrolZones"}

\* C28 as stated: zonesNeedRegeneration goes from true to false only in a call
\* of generatePatrolZones in which all four strategies have run, and every
\* call that returns early leaves the flag as it found it.
C28_EarlyReturnKeepsFlag ==
    [][/\ (StaffManager.zonesNeedRegeneration /\ ~StaffManager'.zonesNeedRegeneration)
            => /\ Strategies \subseteq trace'.ran
               /\ \E r \in 1..Len(trace'.regenerations) : trace'.regenerations[r].gate = ""
       /\ \A r \in 1..Len(trace'.regenerations) :
             trace'.regenerations[r].gate # ""
                => trace'.regenerations[r].staleAfter = trace'.regenerations[r].staleBefore]_vars

\* C28: zonesNeedRegeneration goes from true to false only in a call of
\* generatePatrolZones in which all four strategies have run, and such a
\* call leaves it false.  No early return clears the flag: the returns for
\* missing authority and for an incomplete scan leave it as it was, and the
\* return for an empty roster leaves it as it was unless the roster refresh
\* of the call saw the roster size change, which sets it.
C28_ClearedOnlyAfterStrategies ==
    [][/\ (StaffManager.zonesNeedRegeneration /\ ~StaffManager'.zonesNeedRegeneration)
            => /\ Strategies \subseteq trace'.ran
               /\ \E r \in 1..Len(trace'.regenerations) : trace'.regenerations[r].gate = ""
       /\ \A r \in 1..Len(trace'.regenerations) :
             LET call == trace'.regenerations[r]
             IN  /\ call.gate = "" => (~call.staleAfter /\ Strategies \subseteq trace'.ran)
                 /\ call.gate \in {"authority", "scan"} => call.staleAfter = call.staleBefore
                 /\ call.gate = "empty" =>
                       call.staleAfter = (call.staleBefore \/ call.sizeChanged)
                 /\ call.gate # "" => (call.staleBefore => call.staleAfter)]_vars

\* a tick whose regeneration found the flag up, ran the four strategies,
\* enqueued effects and left the flag down
C28_Witness ==
    /\ trace.op = "tick"
    /\ Strategies \subseteq trace.ran
    /\ Len(trace.regenerations) = 1
    /\ trace.regenerations[1].gate = ""
    /\ trace.regenerations[1].staleBefore
    /\ trace.regenerations[1].effects > 0
    /\ ~StaffManager.zonesNeedRegeneration

\* what the gateway can answer for one effect
Outcomes == {"ok", "err", "throw"}
\* the state in which the drain hands the k-th queued effect to the gateway
Shifted(k) == [State EXCEPT !.ActionQueue.queue = SubSeq(@, k + 1, Len(@))]
\* whether the gateway reports error code 0 for a hire
HireSucceeds(outcome) == outcome = "ok" /\ Len(map.staff) < map.staffLimit

\* C29: when a hire effect is dispatched and the gateway reports error code
\* 0, staffHired goes up by exactly one and zonesNeedRegeneration is true;
\* when it reports another code (or throws) the manager is left as it was
\* and nothing is enqueued, so the hire is not tried again.  Over a run
\* staffHired therefore equals the number of members the gateway has hired.
C29_HireCountedOnSuccessOnly ==
    /\ StaffManager.statistics.staffHired = map.nextEntity - FirstEntity
    /\ \A k \in 1..Len(ActionQueue.queue), outcome \in Outcomes :
          LET item == ActionQueue.queue[k]
              r == executeAction(Shifted(k), item, outcome)
          IN  item.action = "staffhire" =>
                 /\ r.ActionQueue = Shifted(k).ActionQueue
                 /\ r.gateway.issued = gateway.issued
                 /\ IF HireSucceeds(outcome)
                    THEN /\ r.StaffManager =
                               [StaffManager EXCEPT
                                  !.statistics.staffHired = @ + 1,
                                  !.zonesNeedRegeneration = TRUE]
                         /\ Len(r.map.staff) = Len(map.staff) + 1
                    ELSE /\ r.StaffManager = StaffManager
                         /\ r.map = map

\* a tick dispatched several hires of which the gateway accepted exactly
\* one: one member joined, staffHired is 1, and the flag is up on a tick
\* that did not refresh the roster
C29_Witness ==
    /\ trace.op = "tick"
    /\ Cardinality({i \in 1..Len(trace.dispatched) :
                       trace.dispatched[i].action = "staffhire"}) >= 2
    /\ gateway.executed = Ids(trace.dispatched)
    /\ StaffManager.statistics.staffHired = 1
    /\ map.nextEntity = FirstEntity + 1
    /\ trace.threw = <<>>
    /\ "updateStaffLists" \notin trace.ran
    /\ StaffManager.zonesNeedRegeneration

\* the patrol-area effects among a sequence of effects
PatrolAreas(items) == SelectSeq(items, LAMBDA item : item.action = "staffsetpatrolarea")

\* C30: every dispatched patrol-area effect whose callback is invoked adds
\* one to exactly one of patrolZonesSet (error code 0) and patrolZonesFailed
\* (another code) and changes nothing else of the manager, and the callback
\* enqueues nothing: a failed effect is not tried again.  A tick therefore
\* raises the two counters together by the number of patrol-area effects it
\* dispatched whose dispatch did not throw.
C30_PatrolResultCountedOnce ==
    [][/\ \A k \in 1..Len(ActionQueue.queue), outcome \in {"ok", "err"} :
             LET item == ActionQueue.queue[k]
                 r == executeAction(Shifted(k), item, outcome)
                 counter == IF outcome = "ok" /\ HasStaff(map, item.args.id)
                            THEN "patrolZonesSet" ELSE "patrolZonesFailed"
             IN  item.action = "staffsetpatrolarea" =>
                    /\ r.StaffManager =
                          [StaffManager EXCEPT !.statistics[counter] = @ + 1]
                    /\ r.ActionQueue = Shifted(k).ActionQueue
                    /\ r.gateway.issued = gateway.issued
                    /\ r.map = map
       /\ (StaffManager'.statistics.patrolZonesSet
             + StaffManager'.statistics.patrolZonesFailed)
          - (StaffManager.statistics.patrolZonesSet
               + StaffManager.statistics.patrolZonesFailed)
          = Len(PatrolAreas(trace'.dispatched)) - Len(PatrolAreas(trace'.threw))
       /\ \A i \in 1..Len(trace'.dispatched), j \in 1..Len(ActionQueue'.queue) :
             ActionQueue'.queue[j].id # trace'.dispatched[i].id]_vars

\* a tick dispatched three patrol-area effects: the first dispatch threw,
\* one was reported with error code 0 and one with another code
C30_Witness ==
    /\ trace.op = "tick"
    /\ Len(PatrolAreas(trace.dispatched)) = maxPerTick
    /\ Len(PatrolAreas(trace.threw)) = 1
    /\ StaffManager.statistics.patrolZonesSet >= 1
    /\ StaffManager.statistics.patrolZonesFailed >= 1

\* the periodic sub-systems of onTick: the stamp of the last run, the
\* interval and the checkbox, if one stands in the interval check
SubSystems ==
    {[stamp |-> "lastEventCheck", interval |-> eventCheckInterval, toggle |-> ""],
     [stamp |-> "lastAnalysisUpdate", interval |-> analysisInterval, toggle |-> ""],
     [stamp |-> "lastStaffUpdate", interval |-> staffUpdateInterval, toggle |-> ""],
     [stamp |-> "lastAutoHireCheck", interval |-> autoHireCheckInterval, toggle |-> ""],
     [stamp |-> "lastAutoReanalyze", interval |-> autoReanalyzeInterval,
      toggle |-> "autoReanalyze"],
     [stamp |-> "lastAutoGenZones", interval |-> autoGenZonesInterval,
      toggle |-> "autoGenZones"]}
\* whether a sub-system is due on the tick the host is about to deliver
Due(sub) ==
    /\ date' - StaffManager[sub.stamp] >= sub.interval
    /\ sub.toggle # "" => CONFIG[sub.toggle]

\* C31: on a tick of an enabled manager that starts with the scan complete,
\* each of the six sub-systems fires iff the tick minus the stamp of its
\* last run is at least its interval (and its checkbox, if it has one, is
\* ticked), and then stamps the tick; otherwise its stamp is left alone.  A
\* stamp therefore only ever moves forward by at least the interval.  The
\* world-state refresh and the rescan are seen running exactly when due.
C31_FiresIffIntervalElapsed ==
    [][/\ IsTickStep /\ CONFIG.enabled /\ ParkAnalyzer.isAnalyzed =>
             /\ \A sub \in SubSystems :
                   StaffManager'[sub.stamp]
                      = IF Due(sub) THEN date' ELSE StaffManager[sub.stamp]
             /\ "updateGuestDensity" \in trace'.ran
                   <=> date' - StaffManager.lastAnalysisUpdate >= analysisInterval
             /\ "startAnalysis" \in trace'.ran
                   <=> /\ CONFIG.autoReanalyze
                       /\ date' - StaffManager.lastAutoReanalyze >= autoReanalyzeInterval
       /\ \A sub \in SubSystems :
             StaffManager'[sub.stamp] # StaffManager[sub.stamp] =>
                StaffManager'[sub.stamp] - StaffManager[sub.stamp] >= sub.interval]_vars

\* a tick on which the world-state refresh, the roster processing and the
\* event hiring fired, the first two later than their interval after their
\* stamp, while the rescan, whose checkbox is ticked, was not yet due
C31_Witness ==
    /\ trace.op = "tick"
    /\ trace.analyzedAtStart
    /\ CONFIG.enabled /\ CONFIG.autoReanalyze
    /\ StaffManager.lastAnalysisUpdate = date
    /\ StaffManager.lastStaffUpdate = date
    /\ StaffManager.lastEventCheck = date
    /\ StaffManager.lastAutoReanalyze = 0
    /\ "updateGuestDensity" \in trace.ran
    /\ "startAnalysis" \notin trace.ran
    /\ date > analysisInterval

C33_DisabledTickChangesNothing ==
    [][IsTickStep /\ ~CONFIG.enabled =>
          /\ StaffManager' = StaffManager
          /\ ActionQueue' = ActionQueue
          /\ ParkAnalyzer' = ParkAnalyzer
          /\ RideTracker' = RideTracker
          /\ CrimeDetector' = CrimeDetector
          /\ GuestFeedbackAnalyzer' = GuestFeedbackAnalyzer
          /\ CONFIG' = CONFIG
          /\ map' = map
          /\ gateway' = gateway
          /\ trace'.ran = {}
          /\ trace'.dispatched = <<>> /\ trace'.discarded = <<>>
          /\ trace'.added = <<>>]_vars

\* a tick delivered to a disabled manager on an instance that may modify
\* the game state, with effects waiting in the queue and every sub-system
\* but the rescan overdue
C33_Witness ==
    /\ trace.op = "tick"
    /\ ~CONFIG.enabled
    /\ canModifyGameState(State)
    /\ ActionQueue.queue # <<>>
    /\ ParkAnalyzer.isAnalyzed
    /\ StaffManager.tickCounter < date
    /\ date - StaffManager.lastEventCheck >= eventCheckInterval
    /\ date - StaffManager.lastStaffUpdate >= staffUpdateInterval
    /\ date - StaffManager.lastAutoGenZones >= autoGenZonesInterval

\* the places of the structure roster that hold a ride whose id has no
\* record in RideTracker.knownRides
Untracked(s) ==
    {i \in 1..Len(s.map.rides) :
        /\ Ride(s.map.rides[i]).classification = "ride"
        /\ ~Known(s, s.map.rides[i])}

\* C34: called in any state the program reaches, checkForNewRides()
\* returns true iff the size of the structure roster differs from
\* lastRideCount and the roster holds a ride whose id was not tracked
\* before the call.
C34_TrueIffUntrackedFound ==
    checkForNewRidesResult(State)
       <=> /\ Len(map.rides) # RideTracker.lastRideCount
           /\ Untracked(State) # {}

\* C35: a ride record is never removed: an id that has a record in
\* RideTracker.knownRides has one after every step of the program, whatever
\* the step is (a tick, a rescan, a change of the structure roster, the
\* map.change event).
C35_KnownRidesNeverRemoved ==
    [][\A id \in DOMAIN RideTracker.knownRides :
          id \in DOMAIN RideTracker'.knownRides]_vars

\* a detector cycle in the park as it is but for its guests and the state
\* of its paths (the scene), and the need signals a state holds
CycleIn(s, scene) == GuestFeedbackUpdate(CrimeDetectorUpdate([s EXCEPT !.map.scene = scene]))
Signals(s) ==
    [crime |-> s.CrimeDetector.vandalismCount,
     disgust |-> s.GuestFeedbackAnalyzer.disgustCount,
     litter |-> s.GuestFeedbackAnalyzer.litterComplaints,
     happiness |-> s.GuestFeedbackAnalyzer.happinessPercent]

\* C36: the need signals are recomputed from scratch by every cycle of
\* CrimeDetector.update() and GuestFeedbackAnalyzer.update(): in every
\* state the program reaches, the crime count, the disgust count, the
\* litter-complaint count and the happiness percentage a cycle leaves are
\* the same whatever the cycle before it had sampled, an empty guest
\* population included.
C36_SignalsNotCarriedAcrossCycles ==
    \A scene \in Scenes, before \in Scenes :
       Signals(CycleIn(CycleIn(State, before), scene)) = Signals(CycleIn(State, scene))

\* the known ride ids in the order of Object.keys, the group the claim
\* gives mechanic i (counted from 0), the coverage points recorded for a
\* group, and the set effect for a group that has points: the box of the
\* points padded by 3 and clamped to the map
KnownIds == Ascending(DOMAIN RideTracker.knownRides)
GroupOf(i) ==
    LET R == Len(KnownIds)
        M == Len(StaffManager.mechanics)
    IN  {KnownIds[j + 1] :
            j \in (i * CeilDiv(R, M))..(Min((i + 1) * CeilDiv(R, M), R) - 1)}
PointsOf(ids) ==
    UNION {{<<list[id][k].x, list[id][k].y>> : k \in 1..Len(list[id])} :
              id \in ids,
              list \in {RideTracker.rideEntrances, RideTracker.rideExits,
                        RideTracker.ridePaths}}
SetEffectFor(agent, points) ==
    LET lo(S) == CHOOSE v \in S : \A w \in S : v <= w
        hi(S) == CHOOSE v \in S : \A w \in S : v >= w
        xs == {p[1] : p \in points}
        ys == {p[2] : p \in points}
        x1 == Min(Max(0, lo(xs) - 3), map.size[1] - 1)
        y1 == Min(Max(0, lo(ys) - 3), map.size[2] - 1)
        x2 == Max(x1, Min(hi(xs) + 3, map.size[1] - 1))
        y2 == Max(y1, Min(hi(ys) + 3, map.size[2] - 1))
    IN  [action |-> "staffsetpatrolarea",
         args |-> [id |-> agent, x1 |-> x1 * TileUnits, y1 |-> y1 * TileUnits,
                   x2 |-> x2 * TileUnits, y2 |-> y2 * TileUnits, mode |-> 0]]
\* the effects generateMechanicPatrolZones enqueues when called now
MechanicEffects ==
    LET after == generateMechanicPatrolZones(State).ActionQueue.queue
    IN  [k \in 1..(Len(after) - Len(ActionQueue.queue)) |->
           [action |-> after[Len(ActionQueue.queue) + k].action,
            args |-> after[Len(ActionQueue.queue) + k].args]]

\* C37: with R > 0 known rides and M > 0 mechanics on an instance that may
\* modify the game state, the groups [i*ceil(R/M), min((i+1)*ceil(R/M), R))
\* of the known ids put every known ride in the group of exactly one
\* mechanic, and generateMechanicPatrolZones enqueues, in the order of the
\* mechanics, one set effect for each mechanic whose group has recorded
\* coverage points (the box of these points, padded and clamped to the map)
\* and nothing for a mechanic whose group has none.
C37_MechanicGroupsPartitionRides ==
    LET R == Len(KnownIds)
        M == Len(StaffManager.mechanics)
        served == SelectSeq([i \in 1..M |-> i - 1],
                            LAMBDA i : PointsOf(GroupOf(i)) # {})
    IN  (R > 0 /\ M > 0 /\ canModifyGameState(State)) =>
           /\ \A id \in DOMAIN RideTracker.knownRides :
                 Cardinality({i \in 0..(M - 1) : id \in GroupOf(i)}) = 1
           /\ MechanicEffects =
                 [k \in 1..Len(served) |->
                    SetEffectFor(StaffManager.mechanics[served[k] + 1].id,
                                 PointsOf(GroupOf(served[k])))]

\* a regeneration with three known rides and three mechanics: the groups
\* are ride 0, ride 1 and ride 3; the second mechanic, whose ride has no
\* coverage points, gets no set effect, and the set effects of the first
\* and the third differ
C37_Witness ==
    /\ "generateMechanicPatrolZones" \in trace.ran
    /\ canModifyGameState(State)
    /\ Len(StaffManager.mechanics) = 3
    /\ KnownIds = <<0, 1, 3>>
    /\ Len(MechanicEffects) = 2
    /\ MechanicEffects[1].args.id = StaffManager.mechanics[1].id
    /\ MechanicEffects[2].args.id = StaffManager.mechanics[3].id
    /\ MechanicEffects[1].args.x2 # MechanicEffects[2].args.x2

\* C38: on an instance that may modify the game state, with the manager
\* enabled and ticks that keep coming, every effect that waits in the queue
\* is eventually handed to the gateway, whichever effect one watches and
\* whether or not a scan is in progress; no effect leaves the queue in any
\* other way.
C38_EveryEffectEventuallyDispatched ==
    /\ [](history.watched # -1)
    /\ [](history.watched > 0 => <>(history.watched = 0))

\* a watched effect waits in the queue while a scan restarted by the
\* scheduler is in progress
C38_Witness ==
    /\ history.watched > 0
    /\ \E i \in 1..Len(ActionQueue.queue) : ActionQueue.queue[i].id = history.watched
    /\ trace.op = "tick"
    /\ ~ParkAnalyzer.isAnalyzed
    /\ "startAnalysis" \in trace.ran
    /\ CONFIG.enabled /\ canModifyGameState(State)

\* C39: the decision logic runs only with a complete scan.  In every state
\* left by a handler in which CrimeDetector.update, checkSmartHiring or
\* checkAutoHire ran, the handler is a tick that started with
\* ParkAnalyzer.isAnalyzed true; generatePatrolZones, called by the
\* scheduler or by the Generate Zones button, gets past its checks only in
\* a handler that started with isAnalyzed true and has not restarted the
\* scan, and a call during a scan enqueues nothing; and isAnalyzed is true
\* only with analysisProgress >= analysisTotal, the cell count of the map.
C39_DecisionsOnlyOnCompleteScan ==
    /\ \A name \in {"CrimeDetector.update", "checkSmartHiring", "checkAutoHire"} :
          name \in trace.ran => (trace.op = "tick" /\ trace.analyzedAtStart)
    /\ "generatePatrolZones" \in trace.ran =>
          /\ trace.op \in {"tick", "btn_genzones"}
          /\ trace.analyzedAtStart
          /\ "startAnalysis" \notin trace.ran
          /\ ParkAnalyzer.isAnalyzed
    /\ \A r \in 1..Len(trace.regenerations) :
          trace.regenerations[r].gate = "scan" =>
             (trace.regenerations[r].effects = 0 /\ ~ParkAnalyzer.isAnalyzed)
    /\ ParkAnalyzer.isAnalyzed =>
          /\ ParkAnalyzer.analysisProgress >= ParkAnalyzer.analysisTotal
          /\ ParkAnalyzer.analysisTotal = map.size[1] * map.size[2]

\* Generate Zones pressed in the middle of a scan, in a park with staff on
\* an instance that may modify the game state: the call returned at the
\* check of isAnalyzed
C39_Witness ==
    /\ trace.op = "btn_genzones"
    /\ canModifyGameState(State)
    /\ Len(map.staff) > 0
    /\ ~ParkAnalyzer.isAnalyzed
    /\ ParkAnalyzer.analysisProgress > 0
    /\ Len(trace.regenerations) = 1
    /\ trace.regenerations[1].gate = "scan"
    /\ "generatePatrolZones" \notin trace.ran
    /\ trace.added = <<>>

\* C40: statistics.autoGenZonesCount counts regenerations: on any instance
\* it changes only by one, and only on a tick in which generatePatrolZones
\* ran its four strategies and left zonesNeedRegeneration false.
C40_CountsActualRegenerations ==
    [][StaffManager'.statistics.autoGenZonesCount
          # StaffManager.statistics.autoGenZonesCount =>
             /\ StaffManager'.statistics.autoGenZonesCount
                   = StaffManager.statistics.autoGenZonesCount + 1
             /\ trace'.op = "tick"
             /\ Strategies \subseteq trace'.ran
             /\ ~StaffManager'.zonesNeedRegeneration]_vars

====
